---- MODULE Spec2Model ----
(***************************************************************************)
(* Model of the tile lifecycle and imagery streaming core:                 *)
(*   - TileReplacementQueue (intrusive LRU list over Tile nodes),          *)
(*   - Tile (quadtree node: constructor, getChildren, freeResources,       *)
(*     destroy),                                                           *)
(*   - ImageryLayer.createTileImagerySkeletons (overlap, level selection,  *)
(*     bindings of the imagery tiles under a terrain tile),                *)
(*   - ImageryLayer.requestImagery (cache lookup, per-host admission,      *)
(*     fetch completion) and ImageryLayer.createResources.                 *)
(* Source: Source/Scene/ImageryLayer.js                                    *)
(***************************************************************************)
EXTENDS Integers, Sequences, FiniteSets, Bags, TLC

(***************************************************************************)
(* Bounds of the model                                                     *)
(***************************************************************************)
\* tile objects that may exist (the root and one getChildren() call)
MaxTileObjects == 5
\* the render loop visits the tiles 1 .. MaxVisible
MaxVisible == 3
\* largest maxTiles passed to trimTiles
MaxTrimTarget == 2

\* `undefined' for references to tiles (tile ids are 1..Len(tiles))
Undefined == 0

VARIABLES
    tiles,        \* the Tile objects, by id: a sequence of records
    queue,        \* the TileReplacementQueue: head, tail, count, lastBeforeStartOfFrame
    indexBuffer,  \* the index buffer shared by the tiles' vertex arrays
    fault,        \* TRUE once an operation dereferenced undefined (a TypeError)
    hist,         \* the last trimTiles call: its argument and the state it was called in
    frame,        \* the tiles marked rendered since markStartOfRenderFrame
    touched,      \* the tiles marked rendered since construction, while no trimTiles ran
    imagery,      \* the TileImagery bindings, by id
    imageryCache, \* ImageryLayer._imageryCache: the entries, by image URL
    activeTileImageRequests, \* the module's per-hostname count of image requests
    inFlight,     \* per binding, the fetches issued for it that have not completed
    urlPending,   \* the bag of bindings whose requestImagery call holds a URL
                  \* promise that has not settled: its callbacks have not run
    last,         \* the last requestImagery call, run of its URL callbacks or fetch
                  \* completion, and the state it started in
    completed,    \* fetch completions so far (counted by SpecHostCap only)
    failures      \* failed fetches: the consecutive ones, and the total per image URL
                  \* (counted by SpecFailures only)

qvars == <<tiles, queue, indexBuffer, fault, hist, frame, touched>>
ivars == <<imagery, imageryCache, activeTileImageRequests, inFlight,
           urlPending, last, completed, failures>>
vars == <<tiles, queue, indexBuffer, fault, hist, frame, touched,
          imagery, imageryCache, activeTileImageRequests, inFlight,
          urlPending, last, completed, failures>>

(***************************************************************************)
(* Tile                                                                    *)
(***************************************************************************)
\* Tile constructor: the fields a new tile starts with
NewTile(level, x, y, parent) ==
    [ level |-> level, x |-> x, y |-> y, parent |-> parent,
      children |-> <<>>,
      state |-> "UNLOADED",
      vertexArray |-> FALSE,
      geometry |-> FALSE,
      transformedGeometry |-> FALSE,
      imagery |-> <<>>,
      replacementPrevious |-> Undefined,
      replacementNext |-> Undefined,
      destroyed |-> FALSE ]

TileIds(t) == 1 .. Len(t)

\* A property of a description is absent (undefined) or given with a value.
Absent == <<>>
Given(v) == <<v>>

\* typeof v !== 'undefined'
Defined(v) == v # Absent

\* v < 0, which is false of undefined
Negative(v) == Defined(v) /\ v[1] < 0

\* throw new DeveloperError(message)
Thrown(message) == [threw |-> TRUE, error |-> "DeveloperError",
                    message |-> message]

\* tilingScheme.extentToTileXY(extent, level): the coordinates of the tile
\* of that level the extent lies in
ExtentToTileXY(extent, level) == [x |-> Given(0), y |-> Given(0)]

\* Tile constructor: the checks of the description, then the new tile with
\* the description's level and its x and y, or those of its extent when it
\* gives one
TileConstructor(description) ==
    IF ~Defined(description)
      THEN Thrown("description is required.")
    ELSE
    LET d == description[1]
    IN
    IF (~Defined(d.x) \/ ~Defined(d.y)) /\ ~Defined(d.extent)
      THEN Thrown("Either description.extent is required or description.x and description.y are required.")
    ELSE IF Defined(d.x) /\ Defined(d.y) /\ (Negative(d.x) \/ Negative(d.y))
      THEN Thrown("description.x and description.y must be greater than or equal to zero.")
    ELSE IF ~Defined(d.level) \/ Negative(d.zoom)
      THEN Thrown("description.level is required and must be greater than or equal to zero.")
    ELSE IF ~Defined(d.tilingScheme)
      THEN Thrown("description.tilingScheme is required.")
    ELSE IF Defined(d.extent)
      THEN LET coords == ExtentToTileXY(d.extent, d.level)
           IN  [threw |-> FALSE,
                tile |-> NewTile(d.level, coords.x, coords.y, Undefined)]
    ELSE [threw |-> FALSE,
          tile |-> NewTile(d.level, d.x, d.y, Undefined)]

\* a getChildren that builds the south row before the north row
NewChildrenRowsSwapped(t, id) ==
    LET level == t[id].level + 1
        x == t[id].x * 2
        y == t[id].y * 2
    IN  << NewTile(level, x, y + 1, id),
           NewTile(level, x + 1, y + 1, id),
           NewTile(level, x, y, id),
           NewTile(level, x + 1, y, id) >>

\* Tile.prototype.getChildren: the four tiles it constructs, in order
NewChildren(t, id) ==
    LET level == t[id].level + 1
        x == t[id].x * 2
        y == t[id].y * 2
    IN  << NewTile(level, x, y, id),
           NewTile(level, x + 1, y, id),
           NewTile(level, x, y + 1, id),
           NewTile(level, x + 1, y + 1, id) >>

RECURSIVE Subtree(_, _)
\* a tile and its materialized descendants
Subtree(t, id) ==
    {id} \cup UNION {Subtree(t, t[id].children[i]) :
                         i \in 1 .. Len(t[id].children)}

\* A heap is what the queue's and the tiles' methods read and write: the
\* queue, the tiles, the shared index buffer, the TileImagery bindings.
Heap(q, t, ib, f, im) ==
    [q |-> q, t |-> t, ib |-> ib, fault |-> f, im |-> im]

\* TileImagery.prototype.destroy: the binding is destroyed
TileImageryDestroy(tileImagery) == [tileImagery EXCEPT !.destroyed = TRUE]

\* a freeResources that empties the list of bindings without destroying them
DestroyBindingsSkipped(im, list) == im

\* Object.keys(imagery).forEach(... tileImagery.destroy()): every binding
\* of the list is destroyed
DestroyBindings(im, list) ==
    [b \in DOMAIN im |->
        IF \E k \in 1 .. Len(list) : list[k] = b
          THEN TileImageryDestroy(im[b])
          ELSE im[b]]

\* a freeResources that releases the index buffer without looking at the
\* vertex array
FreeOwnResourcesAlwaysReleases(H, id) ==
    LET tile == H.t[id]
        ib1 == IF ~H.ib.destroyed
                 THEN LET rc == H.ib.referenceCount - 1
                      IN  [referenceCount |-> rc,
                           destroyed |-> (rc = 0)]
                 ELSE H.ib
        \* tileImagery.destroy() for each binding, then this.imagery = []
        im1 == DestroyBindings(H.im, tile.imagery)
        tile1 == [tile EXCEPT !.state = "UNLOADED",
                              !.vertexArray = FALSE,
                              !.geometry = FALSE,
                              !.transformedGeometry = FALSE,
                              !.imagery = <<>>]
    IN  [H EXCEPT !.t[id] = tile1, !.ib = ib1, !.im = im1]

\* Tile.prototype.freeResources, without the recursion into children
FreeOwnResources(H, id) ==
    LET tile == H.t[id]
        hadVertexArray == tile.vertexArray
        \* --indexBuffer.referenceCount; destroy() when it reaches 0
        ib1 == IF hadVertexArray /\ ~H.ib.destroyed
                 THEN LET rc == H.ib.referenceCount - 1
                      IN  [referenceCount |-> rc,
                           destroyed |-> (rc = 0)]
                 ELSE H.ib
        \* tileImagery.destroy() for each binding, then this.imagery = []
        im1 == DestroyBindings(H.im, tile.imagery)
        tile1 == [tile EXCEPT !.state = "UNLOADED",
                              !.vertexArray = FALSE,
                              !.geometry = FALSE,
                              !.transformedGeometry = FALSE,
                              !.imagery = <<>>]
    IN  [H EXCEPT !.t[id] = tile1, !.ib = ib1, !.im = im1]

RECURSIVE FreeChildren(_, _, _)
RECURSIVE FreeResources(_, _)
\* Tile.prototype.freeResources: this tile, then every child in order
FreeResources(H, id) ==
    FreeChildren(FreeOwnResources(H, id), H.t[id].children, 1)

FreeChildren(H, children, i) ==
    IF i > Len(children) THEN H
    ELSE FreeChildren(FreeResources(H, children[i]), children, i + 1)

\* Tile.prototype.isDestroyed, and what destroyObject makes of it
IsDestroyed(t, id) == t[id].destroyed

\* typeof tile.children !== 'undefined': the array exists once getChildren
\* has constructed the children, also after destroy has emptied it
ChildrenDefined(t, id) ==
    t[id].children # <<>> \/ \E c \in TileIds(t) : t[c].parent = id

\* What a destroy call reads and writes: the tiles, whether a DeveloperError
\* was thrown, and the tiles destroyed so far, in order.
Destroying(t) == [t |-> t, threw |-> FALSE, order |-> <<>>]

\* destroyObject(tile): every method but isDestroyed throws from now on
DestroyObject(D, id) ==
    [D EXCEPT !.t[id].destroyed = TRUE, !.order = Append(@, id)]

\* a destroy that leaves the children alone
DestroySkipsChildren(D, id) ==
    IF D.threw THEN D
    ELSE IF IsDestroyed(D.t, id) THEN [D EXCEPT !.threw = TRUE]
    ELSE DestroyObject([D EXCEPT !.t[id].vertexArray = FALSE], id)

RECURSIVE DestroyChildren(_, _)
RECURSIVE Destroy(_, _)
\* Tile.prototype.destroy; on a destroyed tile the call throws
Destroy(D, id) ==
    IF D.threw THEN D
    ELSE IF IsDestroyed(D.t, id) THEN [D EXCEPT !.threw = TRUE]
    ELSE LET D1 == [D EXCEPT !.t[id].vertexArray = FALSE]
             D2 == DestroyChildren(D1, id)
         IN  IF D2.threw THEN D2 ELSE DestroyObject(D2, id)

\* while (this.children.length > 0) { this.children.pop().destroy(); }
DestroyChildren(D, id) ==
    IF D.threw \/ D.t[id].children = <<>> THEN D
    ELSE LET n == Len(D.t[id].children)
             child == D.t[id].children[n]
             D1 == [D EXCEPT !.t[id].children = SubSeq(@, 1, n - 1)]
         IN  DestroyChildren(Destroy(D1, child), id)

(***************************************************************************)
(* TileReplacementQueue                                                    *)
(***************************************************************************)
\* TileReplacementQueue constructor
NewQueue == [head |-> Undefined, tail |-> Undefined, count |-> 0,
             lastBeforeStartOfFrame |-> Undefined]

\* a _remove that forgets --this.count
RemoveKeepsCount(H, item) ==
    LET previous == H.t[item].replacementPrevious
        next == H.t[item].replacementNext
        H1 == IF item = H.q.lastBeforeStartOfFrame
                THEN [H EXCEPT !.q.lastBeforeStartOfFrame = next]
                ELSE H
        H2 == IF item = H1.q.head
                THEN [H1 EXCEPT !.q.head = next]
                ELSE [H1 EXCEPT !.t[previous].replacementNext = next]
        H3 == IF item = H2.q.tail
                THEN [H2 EXCEPT !.q.tail = previous]
                ELSE [H2 EXCEPT !.t[next].replacementPrevious = previous]
    IN  [H3 EXCEPT !.t[item].replacementPrevious = Undefined,
                   !.t[item].replacementNext = Undefined]

\* TileReplacementQueue.prototype._remove
Remove(H, item) ==
    LET previous == H.t[item].replacementPrevious
        next == H.t[item].replacementNext
        H1 == IF item = H.q.lastBeforeStartOfFrame
                THEN [H EXCEPT !.q.lastBeforeStartOfFrame = next]
                ELSE H
        \* previous._replacementNext = next throws when previous is undefined
        H2 == IF item = H1.q.head
                THEN [H1 EXCEPT !.q.head = next]
                ELSE IF previous = Undefined
                       THEN [H1 EXCEPT !.fault = TRUE]
                       ELSE [H1 EXCEPT !.t[previous].replacementNext = next]
        \* next._replacementPrevious = previous throws when next is undefined
        H3 == IF H2.fault THEN H2
              ELSE IF item = H2.q.tail
                THEN [H2 EXCEPT !.q.tail = previous]
                ELSE IF next = Undefined
                       THEN [H2 EXCEPT !.fault = TRUE]
                       ELSE [H2 EXCEPT !.t[next].replacementPrevious = previous]
    IN  IF H3.fault THEN H3
        ELSE [H3 EXCEPT !.t[item].replacementPrevious = Undefined,
                        !.t[item].replacementNext = Undefined,
                        !.q.count = @ - 1]

\* a markTileRendered that leaves the marker on a head that is marked again
MarkHeadKeepsMarker(H, item) == H

\* markTileRendered when item is already the head: the marker moves off it
MarkHead(H, item) ==
    IF item = H.q.lastBeforeStartOfFrame
      THEN [H EXCEPT !.q.lastBeforeStartOfFrame = H.t[item].replacementNext]
      ELSE H

\* markTileRendered on an empty list: item is the only tile
InsertFirst(H, item) ==
    [H EXCEPT !.t[item].replacementPrevious = Undefined,
              !.t[item].replacementNext = Undefined,
              !.q.head = item,
              !.q.tail = item]

\* a markTileRendered that links item before the head and forgets this.head
InsertBeforeKeepsHead(H, item, insertionPoint) ==
    LET insertAfter == H.t[insertionPoint].replacementPrevious
        Ha == [H EXCEPT !.t[item].replacementPrevious = insertAfter]
        Hb == IF insertAfter # Undefined
                THEN [Ha EXCEPT !.t[insertAfter].replacementNext = item]
                ELSE Ha
    IN  [Hb EXCEPT !.t[item].replacementNext = insertionPoint,
                   !.t[insertionPoint].replacementPrevious = item]

\* markTileRendered: item is linked in front of insertionPoint
InsertBefore(H, item, insertionPoint) ==
    LET insertAfter == H.t[insertionPoint].replacementPrevious
        Ha == [H EXCEPT !.t[item].replacementPrevious = insertAfter]
        Hb == IF insertAfter # Undefined
                THEN [Ha EXCEPT !.t[insertAfter].replacementNext = item]
                ELSE Ha
        Hd == [Hb EXCEPT !.t[item].replacementNext = insertionPoint,
                         !.t[insertionPoint].replacementPrevious = item]
    IN  IF insertionPoint = Hd.q.head
          THEN [Hd EXCEPT !.q.head = item]
          ELSE Hd

\* TileReplacementQueue.prototype.markTileRendered
MarkRendered(H, item) ==
    LET insertionPoint == H.q.head
    IN
    IF insertionPoint = item THEN MarkHead(H, item)
    ELSE
    LET Hc == [H EXCEPT !.q.count = @ + 1]
    IN
    IF Hc.q.head = Undefined THEN InsertFirst(Hc, item)
    ELSE
    LET Hr == IF Hc.t[item].replacementPrevious # Undefined
                 \/ Hc.t[item].replacementNext # Undefined
                THEN Remove(Hc, item)
                ELSE Hc
    IN
    \* insertionPoint is the head read on entry; it is not undefined here, so
    \* the branch `typeof insertionPoint === "undefined"' is never taken
    IF Hr.fault THEN Hr ELSE InsertBefore(Hr, item, insertionPoint)

\* a trimTiles that does not stop at the marker
KeepTrimmingPastMarker(H, tileToTrim) == TRUE

\* keepTrimming = tileToTrim !== this._lastBeforeStartOfFrame
KeepTrimming(H, tileToTrim) == tileToTrim # H.q.lastBeforeStartOfFrame

RECURSIVE TrimLoop(_, _, _, _)
\* the while loop of TileReplacementQueue.prototype.trimTiles
TrimLoop(H, tileToTrim, keepTrimming, maxTiles) ==
    IF /\ ~H.fault
       /\ keepTrimming
       /\ H.q.lastBeforeStartOfFrame # Undefined
       /\ H.q.count > maxTiles
       /\ tileToTrim # Undefined
    THEN LET keep == KeepTrimming(H, tileToTrim)
             previous == H.t[tileToTrim].replacementPrevious
             H1 == IF H.t[tileToTrim].state # "TRANSITIONING"
                     THEN Remove(FreeResources(H, tileToTrim), tileToTrim)
                     ELSE H
         IN  TrimLoop(H1, previous, keep, maxTiles)
    ELSE H

\* a trimTiles that trims down to an empty list whatever maxTiles is
TrimIgnoresBudget(H, maxTiles) == TrimLoop(H, H.q.tail, TRUE, 0)

\* TileReplacementQueue.prototype.trimTiles
Trim(H, maxTiles) == TrimLoop(H, H.q.tail, TRUE, maxTiles)

(***************************************************************************)
(* Reading the list                                                        *)
(***************************************************************************)
RECURSIVE Walk(_, _, _)
\* the tiles met from `from' following replacementNext, at most `fuel' of them
Walk(t, from, fuel) ==
    IF from = Undefined \/ fuel = 0 THEN <<>>
    ELSE <<from>> \o Walk(t, t[from].replacementNext, fuel - 1)

\* the list from the head to the tail
Chain(q, t) == Walk(t, q.head, Len(t) + 1)

Range(s) == {s[i] : i \in 1 .. Len(s)}

Linked(q, t) == Range(Chain(q, t))

\* position of tile id in sequence s (0 when absent)
IndexOf(s, id) ==
    IF id \in Range(s) THEN CHOOSE i \in 1 .. Len(s) : s[i] = id ELSE 0

(***************************************************************************)
(* ImageryLayer.requestImagery                                             *)
(***************************************************************************)
\* requests per hostname above which a request is postponed
HostRequestCap == 6
\* this.maxTileFailCount and this.perTileMaxFailCount
MaxTileFailCount == 10
PerTileMaxFailCount == 3

NoUrl == <<>>
NoImage == <<>>
NoTexture == 0

\* new TileImagery(layer, x, y, level, ...)
NewTileImagery(x, y, level) ==
    [ x |-> x, y |-> y, level |-> level,
      state |-> "UNLOADED",
      imageUrl |-> NoUrl,
      image |-> NoImage,
      texture |-> NoTexture,
      destroyed |-> FALSE ]

\* imageryProvider.buildImageUrl(x, y, level): one URL per imagery tile
BuildImageUrl(x, y, level) == <<level, x, y>>

\* getHostname(url): the provider serves row y of its tiles from host y
GetHostname(url) == IF url[3] = 0 THEN "a" ELSE "b"

\* the image imageryProvider.requestImage(url) decodes
DecodedImage(url) == <<"image", url>>

\* ImageryCache.get: is there an entry for the URL
CacheHas(cache, url) == url \in DOMAIN cache

\* ImageryCache.beginAdd: a pending entry (no texture yet) for the URL; `by'
\* records the binding whose request added it
BeginAdd(cache, url, b) ==
    [k \in DOMAIN cache \cup {url} |->
        IF k = url THEN [texture |-> NoTexture, by |-> b] ELSE cache[k]]

\* ImageryCache.abortAdd: the entry of the URL is removed
AbortAdd(cache, url) == [k \in DOMAIN cache \ {url} |-> cache[k]]

\* defaultValue(activeTileImageRequests[hostname], 0)
ActiveRequests(active, hostname) ==
    IF hostname \in DOMAIN active THEN active[hostname] ELSE 0

\* activeTileImageRequests[hostname] = n
SetActive(active, hostname, n) ==
    [h \in DOMAIN active \cup {hostname} |->
        IF h = hostname THEN n ELSE active[h]]

\* what requestImagery and its callbacks read and write
Layer(im, cache, active, fl) ==
    [imagery |-> im, cache |-> cache, active |-> active, inFlight |-> fl,
     logged |-> FALSE, issued |-> FALSE, threw |-> FALSE]

\* activeRequestsForHostname > 6
OverCap(active, hostname) ==
    ActiveRequests(active, hostname) > HostRequestCap

\* a cache hit that marks the binding READY and forgets the texture
OnCacheHitKeepsTexture(L, b, url) ==
    IF L.cache[url].texture = NoTexture
      THEN [L EXCEPT !.imagery[b].state = "UNLOADED"]
      ELSE [L EXCEPT !.imagery[b].state = "READY"]

\* requestImagery, first callback, the URL has a cache entry
OnCacheHit(L, b, url) ==
    IF L.cache[url].texture = NoTexture
      THEN [L EXCEPT !.imagery[b].state = "UNLOADED"]
      ELSE [L EXCEPT !.imagery[b].texture = L.cache[url].texture,
                     !.imagery[b].state = "READY"]

\* a first callback that counts the request before it tests the cap
OnImageUrlCountsBeforeCap(L, b, url) ==
    IF CacheHas(L.cache, url) THEN OnCacheHit(L, b, url)
    ELSE
    LET hostname == GetHostname(url)
        active1 == IF hostname # ""
                     THEN SetActive(L.active, hostname,
                              ActiveRequests(L.active, hostname) + 1)
                     ELSE L.active
    IN
    IF hostname # "" /\ OverCap(L.active, hostname)
      THEN [L EXCEPT !.active = active1,
                     !.imagery[b].state = "UNLOADED"]
      ELSE [L EXCEPT !.active = active1,
                     !.cache = BeginAdd(L.cache, url, b),
                     !.imagery[b].imageUrl = url,
                     !.inFlight[b] = @ + 1,
                     !.issued = TRUE]

\* requestImagery, first callback: called with the resolved image URL
OnImageUrl(L, b, url) ==
    IF CacheHas(L.cache, url) THEN OnCacheHit(L, b, url)
    ELSE
    LET hostname == GetHostname(url)
    IN
    IF hostname # "" /\ OverCap(L.active, hostname)
      THEN \* postpone loading tile
           [L EXCEPT !.imagery[b].state = "UNLOADED"]
      ELSE LET active1 == IF hostname # ""
                            THEN SetActive(L.active, hostname,
                                     ActiveRequests(L.active, hostname) + 1)
                            ELSE L.active
           IN  [L EXCEPT !.active = active1,
                         !.cache = BeginAdd(L.cache, url, b),
                         !.imagery[b].imageUrl = url,
                         !.inFlight[b] = @ + 1,
                         !.issued = TRUE]

\* requestImagery, second callback: requestImage resolved with an image or
\* with undefined (the boolean of a call that issued nothing returns early)
OnImage(L, b, hostname, image) ==
    LET L1 == [L EXCEPT !.active = SetActive(L.active, hostname,
                                       ActiveRequests(L.active, hostname) - 1),
                        !.imagery[b].image = image]
    IN  IF image = NoImage
          THEN [L1 EXCEPT !.imagery[b].state = "INVALID",
                          !.cache = AbortAdd(L1.cache, L1.imagery[b].imageUrl)]
          ELSE [L1 EXCEPT !.imagery[b].state = "RECEIVED"]

\* requestImagery, error callback: buildImageUrl or requestImage rejected
OnError(L, b) ==
    [L EXCEPT !.logged = TRUE,
              !.imagery[b].state = "FAILED",
              !.cache = AbortAdd(L.cache, L.imagery[b].imageUrl)]

\* ImageryCache.finishAdd: the entry of the URL holds the texture
FinishAdd(cache, url, texture, b) ==
    [k \in DOMAIN cache \cup {url} |->
        IF k = url THEN [texture |-> texture, by |-> b] ELSE cache[k]]

\* imageryProvider.createResources: when it creates the texture of a RECEIVED
\* binding (texture b is the one made from the image of binding b), the
\* binding is READY; otherwise nothing changes
ProviderCreateResources(L, b, made) ==
    IF made /\ L.imagery[b].state = "RECEIVED"
      THEN [L EXCEPT !.imagery[b].texture = b,
                     !.imagery[b].state = "READY"]
      ELSE L

\* a createResources that registers the texture whatever the state
CreateResourcesAlwaysRegisters(L, b, made) ==
    LET L1 == ProviderCreateResources(L, b, made)
    IN  [L1 EXCEPT !.cache = FinishAdd(L1.cache, L1.imagery[b].imageUrl,
                                       L1.imagery[b].texture, b),
                   !.imagery[b].imageUrl = NoUrl]

\* ImageryLayer.prototype.createResources
CreateResourcesOf(L, b, made) ==
    LET L1 == ProviderCreateResources(L, b, made)
    IN  IF L1.imagery[b].state = "READY"
          THEN [L1 EXCEPT !.cache = FinishAdd(L1.cache, L1.imagery[b].imageUrl,
                                              L1.imagery[b].texture, b),
                          !.imagery[b].imageUrl = NoUrl]
          ELSE L1

(***************************************************************************)
(* ImageryLayer.createTileImagerySkeletons                                 *)
(***************************************************************************)
\* Longitudes and latitudes are whole multiples of 30 degrees: the world of
\* the imagery tiling scheme is [-6, 6] x [-3, 3], with 2 x 1 tiles at level 0.
WorldWest == -6
WorldEast == 6
WorldSouth == -3
WorldNorth == 3
NumberOfLevelZeroTilesX == 2
NumberOfLevelZeroTilesY == 1

\* ellipsoid.getMaximumRadius() * 2 * Math.PI /
\*     (imageryProvider.tileWidth * tilingScheme.numberOfLevelZeroTilesX),
\* in the unit of the geometric errors
LevelZeroSpacingAtEquator == 4

\* the levels Math.round(Math.log(..) / Math.log(2)) is looked for in,
\* before the halvings of the cosine are taken off
MaxRawLevel == 8

Extent(west, south, east, north) ==
    [west |-> west, south |-> south, east |-> east, north |-> north]

Max2(a, b) == IF a >= b THEN a ELSE b
Min2(a, b) == IF a <= b THEN a ELSE b
Abs(a) == IF a >= 0 THEN a ELSE -a

RECURSIVE Pow2(_)
Pow2(n) == IF n <= 0 THEN 1 ELSE 2 * Pow2(n - 1)

\* Extent.prototype.intersectWith
IntersectWith(a, b) ==
    Extent(Max2(a.west, b.west), Max2(a.south, b.south),
           Min2(a.east, b.east), Min2(a.north, b.north))

\* an emptiness test that lets through the extents without area
IsEmptyStrictly(extent) ==
    extent.east < extent.west \/ extent.north < extent.south

\* extent.east <= extent.west || extent.north <= extent.south
IsEmpty(extent) ==
    extent.east <= extent.west \/ extent.north <= extent.south

\* a latitude that is the south edge whatever the hemisphere
LatitudeOfSouthEdge(extent) == extent.south

\* latitudeClosestToEquator
LatitudeClosestToEquator(extent) ==
    IF extent.south > 0 THEN extent.south
    ELSE IF extent.north < 0 THEN extent.north
    ELSE 0

\* Math.cos(latitude)^2 at 0, 30, 60 and 90 degrees, as n / d / 4^halvings.
\* Math.cos(Math.PI / 2) is 6.123233995736766e-17, not 0: its square is
\* 1.21675 * 2^-108, and 73 / 60 stands for 1.21675.
CosSquared(latitude) ==
    CASE Abs(latitude) = 0 -> [n |-> 1, d |-> 1, halvings |-> 0]
      [] Abs(latitude) = 1 -> [n |-> 3, d |-> 4, halvings |-> 0]
      [] Abs(latitude) = 2 -> [n |-> 1, d |-> 4, halvings |-> 0]
      [] OTHER -> [n |-> 73, d |-> 60, halvings |-> 54]

\* 2^e * d <= n, for any integer e
AtLeastPow2(n, d, e) ==
    IF e >= 0 THEN Pow2(e) * d <= n ELSE d <= n * Pow2(-e)

\* ImageryLayer.prototype._getLevelWithMaximumTexelSpacing:
\* Math.round(log2(levelZeroMaximumTexelSpacing / texelSpacing)) | 0, where
\* the ratio r has r^2 = n / d / 4^halvings; Math.round gives the k with
\* 2^(2k-1) <= r^2 < 2^(2k+1). A texel spacing of 0 gives Infinity and a
\* negative one NaN, and both are 0 after | 0.
GetLevelWithMaximumTexelSpacing(texelSpacing, latitudeClosestToEquator) ==
    LET c == CosSquared(latitudeClosestToEquator)
        n == LevelZeroSpacingAtEquator * LevelZeroSpacingAtEquator * c.n
        d == texelSpacing * texelSpacing * c.d
    IN  IF texelSpacing <= 0 THEN 0
        ELSE (CHOOSE k \in -MaxRawLevel .. MaxRawLevel :
                  /\ AtLeastPow2(n, d, 2 * k - 1)
                  /\ ~AtLeastPow2(n, d, 2 * k + 1))
             - c.halvings

\* Math.max(0, Math.min(imageryProvider.maxLevel, imageryLevel))
ClampLevel(maxLevel, imageryLevel) == Max2(0, Min2(maxLevel, imageryLevel))

\* the tiles of the imagery tiling scheme at a level
NumberOfTilesX(level) == NumberOfLevelZeroTilesX * Pow2(level)
NumberOfTilesY(level) == NumberOfLevelZeroTilesY * Pow2(level)

\* tilingScheme.positionToTileXY: x counts from the west, y from the north,
\* and a position on the east or south edge of the world is in the last tile
PositionToTileXY(longitude, latitude, level) ==
    [x |-> Min2(NumberOfTilesX(level) - 1,
                ((longitude - WorldWest) * NumberOfTilesX(level))
                    \div (WorldEast - WorldWest)),
     y |-> Min2(NumberOfTilesY(level) - 1,
                ((WorldNorth - latitude) * NumberOfTilesY(level))
                    \div (WorldNorth - WorldSouth))]

\* tilingScheme.tileXYToExtent(x, y, level), compared with a longitude or a
\* latitude: Math.abs(edge - value) < CesiumMath.EPSILON10
WestEdgeIs(x, level, longitude) ==
    x * (WorldEast - WorldWest)
        = (longitude - WorldWest) * NumberOfTilesX(level)
EastEdgeIs(x, level, longitude) ==
    (x + 1) * (WorldEast - WorldWest)
        = (longitude - WorldWest) * NumberOfTilesX(level)
NorthEdgeIs(y, level, latitude) ==
    y * (WorldNorth - WorldSouth)
        = (WorldNorth - latitude) * NumberOfTilesY(level)
SouthEdgeIs(y, level, latitude) ==
    (y + 1) * (WorldNorth - WorldSouth)
        = (WorldNorth - latitude) * NumberOfTilesY(level)

\* the northwest tile coordinates, moved off a tile that only touches the
\* extent
NorthwestTileCoordinates(extent, level) ==
    LET c == PositionToTileXY(extent.west, extent.north, level)
    IN  [x |-> IF EastEdgeIs(c.x, level, extent.west) THEN c.x + 1 ELSE c.x,
         y |-> IF SouthEdgeIs(c.y, level, extent.north) THEN c.y + 1 ELSE c.y]

\* the southeast tile coordinates, moved off a tile that only touches the
\* extent
SoutheastTileCoordinates(extent, level) ==
    LET c == PositionToTileXY(extent.east, extent.south, level)
    IN  [x |-> IF WestEdgeIs(c.x, level, extent.east) THEN c.x - 1 ELSE c.x,
         y |-> IF NorthEdgeIs(c.y, level, extent.south) THEN c.y - 1 ELSE c.y]

RECURSIVE PushColumn(_, _, _, _, _)
\* for (j = from; j <= to; j++) push(new TileImagery(this, i, j, level, ..))
PushColumn(list, i, from, to, level) ==
    IF from > to THEN list
    ELSE PushColumn(Append(list, NewTileImagery(i, from, level)),
                    i, from + 1, to, level)

RECURSIVE PushColumnsButLast(_, _, _, _)
\* a loop that stops one column short of the southeast tile
PushColumnsButLast(list, nw, se, level) ==
    IF nw.x >= se.x THEN list
    ELSE PushColumnsButLast(PushColumn(list, nw.x, nw.y, se.y, level),
                            [nw EXCEPT !.x = @ + 1], se, level)

RECURSIVE PushColumns(_, _, _, _)
\* for (i = northwest.x; i <= southeast.x; i++) { the column i }
PushColumns(list, nw, se, level) ==
    IF nw.x > se.x THEN list
    ELSE PushColumns(PushColumn(list, nw.x, nw.y, se.y, level),
                     [nw EXCEPT !.x = @ + 1], se, level)

\* an imagery layer: its provider's extent and maxLevel, and its own extent
ImageryLayer(providerExtent, maxLevel, extent) ==
    [providerExtent |-> providerExtent, maxLevel |-> maxLevel,
     extent |-> extent]

\* ImageryLayer.prototype.createTileImagerySkeletons on a tile with the
\* given extent and list of bindings: what it returns, the list after it,
\* and the extent, latitude, level and tile coordinates it computed
CreateTileImagerySkeletonsOf(layer, tileExtent, tileImagery, geometricError) ==
    LET extent == IntersectWith(IntersectWith(tileExtent,
                                              layer.providerExtent),
                                layer.extent)
    IN  IF IsEmpty(extent)
          THEN [returned |-> FALSE, imagery |-> tileImagery,
                extent |-> extent]
          ELSE LET latitude == LatitudeClosestToEquator(extent)
                   level == ClampLevel(layer.maxLevel,
                                GetLevelWithMaximumTexelSpacing(
                                    geometricError, latitude))
                   nw == NorthwestTileCoordinates(extent, level)
                   se == SoutheastTileCoordinates(extent, level)
               IN  [returned |-> TRUE,
                    imagery |-> PushColumns(tileImagery, nw, se, level),
                    extent |-> extent, latitude |-> latitude,
                    level |-> level, northwest |-> nw, southeast |-> se]

(***************************************************************************)
(* State and operations of the imagery layer                               *)
(***************************************************************************)
\* requestImagery is called for a binding that has fewer than MaxOwnFetches
\* fetches of its own in flight
MaxOwnFetches == 2
\* SpecHostCap: bindings of host "a" (one more is of host "b"), and the
\* fetches that complete
CrowdSize == 8
MaxCrowdCompletions == 2
\* SpecResources: the fetches that complete
MaxResourceCompletions == 2

NoEvent == [op |-> "none", binding |-> 0, outcome |-> "none",
            issued |-> FALSE, logged |-> FALSE, threw |-> FALSE, pre |-> <<>>]

\* the state a call, a callback or a completion starts in
Snapshot == [imagery |-> imagery, cache |-> imageryCache,
             active |-> activeTileImageRequests, inFlight |-> inFlight]

\* no fetch has failed
NoFailures == [consecutive |-> 0, ofUrl |-> <<>>]

\* the failed fetches of a URL so far
FailuresOf(F, url) == IF url \in DOMAIN F.ofUrl THEN F.ofUrl[url] ELSE 0

\* the record of failed fetches after a fetch of the URL has completed
Recorded(F, url, outcome) ==
    IF outcome = "failure"
      THEN [consecutive |-> F.consecutive + 1,
            ofUrl |-> [u \in DOMAIN F.ofUrl \cup {url} |->
                          IF u = url THEN FailuresOf(F, url) + 1
                                     ELSE F.ofUrl[u]]]
      ELSE [F EXCEPT !.consecutive = 0]

\* no tile operation was called yet
NoHist == [op |-> "none"]

\* a new queue, and a tile tree of one root
QInit ==
    /\ tiles = <<NewTile(0, 0, 0, Undefined)>>
    /\ queue = NewQueue
    /\ indexBuffer = [referenceCount |-> 0, destroyed |-> FALSE]
    /\ fault = FALSE
    /\ hist = NoHist
    /\ frame = [open |-> FALSE, marked |-> {}]
    /\ touched = [noTrim |-> TRUE, marked |-> {}, last |-> Undefined,
                  remarked |-> FALSE]

IQuiet ==
    /\ imageryCache = <<>>
    /\ activeTileImageRequests = <<>>
    /\ inFlight = [b \in DOMAIN imagery |-> 0]
    /\ urlPending = EmptyBag
    /\ last = NoEvent
    /\ completed = 0
    /\ failures = NoFailures

\* the bindings of two terrain tiles that overlap the same imagery tile
IInit ==
    /\ imagery = << NewTileImagery(0, 0, 1), NewTileImagery(0, 0, 1) >>
    /\ IQuiet

\* CrowdSize bindings for distinct imagery tiles of host "a", and one binding
\* for an imagery tile of host "b"
CrowdInit ==
    /\ QInit
    /\ imagery = [b \in 1 .. CrowdSize + 1 |->
                    IF b <= CrowdSize THEN NewTileImagery(b - 1, 0, 3)
                                      ELSE NewTileImagery(0, 1, 3)]
    /\ IQuiet

\* what imageryProvider.buildImageUrl does when requestImagery calls it: it
\* gives a URL, gives a promise that is already rejected, throws, or gives a
\* promise that has not settled
UrlResolutions == {"resolved", "rejected", "threw", "pending"}

\* how a URL promise settles
UrlSettlements == {"resolved", "rejected"}

\* the URL promises that may be unsettled at a time
MaxPendingUrls == 1

\* the callbacks of requestImagery on the URL: the first callback is called
\* with the URL, the error callback with the rejection
UrlCallbacks(L, b, settlement) ==
    LET url == BuildImageUrl(L.imagery[b].x, L.imagery[b].y,
                             L.imagery[b].level)
    IN  IF settlement = "resolved" THEN OnImageUrl(L, b, url)
                                   ELSE OnError(L, b)

\* A call layer.requestImagery(imagery[b]), up to its return.
\* buildImageUrl is called to compute the argument of when(): what it throws
\* is thrown out of requestImagery before any callback exists.  when() calls
\* the callbacks of a value or of a settled promise before it returns; on a
\* promise that has not settled it registers them and the call returns with
\* nothing changed.
RequestImagery(b, resolution) ==
    /\ b \in DOMAIN imagery
    /\ LET L == Layer(imagery, imageryCache, activeTileImageRequests, inFlight)
           R == CASE resolution = "threw" -> [L EXCEPT !.threw = TRUE]
                  [] resolution = "pending" -> L
                  [] resolution \in UrlSettlements ->
                         UrlCallbacks(L, b, resolution)
       IN  /\ imagery' = R.imagery
           /\ imageryCache' = R.cache
           /\ activeTileImageRequests' = R.active
           /\ inFlight' = R.inFlight
           /\ last' = [op |-> "requestImagery", binding |-> b,
                       outcome |-> resolution,
                       issued |-> R.issued, logged |-> R.logged,
                       threw |-> R.threw, pre |-> Snapshot]
    /\ urlPending' = IF resolution = "pending"
                       THEN urlPending (+) SetToBag({b})
                       ELSE urlPending
    /\ UNCHANGED qvars

\* the URL promise of an earlier call layer.requestImagery(imagery[b])
\* settles: the callbacks of that call run now, on the state of now
SettleUrl(b, settlement) ==
    /\ b \in DOMAIN imagery
    /\ CopiesIn(b, urlPending) > 0
    /\ LET L == Layer(imagery, imageryCache, activeTileImageRequests, inFlight)
           R == UrlCallbacks(L, b, settlement)
       IN  /\ imagery' = R.imagery
           /\ imageryCache' = R.cache
           /\ activeTileImageRequests' = R.active
           /\ inFlight' = R.inFlight
           /\ last' = [op |-> "requestImagery", binding |-> b,
                       outcome |-> settlement,
                       issued |-> R.issued, logged |-> R.logged,
                       threw |-> R.threw, pre |-> Snapshot]
    /\ urlPending' = urlPending (-) SetToBag({b})
    /\ UNCHANGED qvars

\* a fetch issued for imagery[b] completes: with a decoded image, with no
\* image, or with a failure
CompleteFetch(b, outcome) ==
    /\ b \in DOMAIN imagery
    /\ inFlight[b] > 0
    /\ LET L == Layer(imagery, imageryCache, activeTileImageRequests, inFlight)
           url == BuildImageUrl(imagery[b].x, imagery[b].y, imagery[b].level)
           hostname == GetHostname(url)
           R == CASE outcome = "image" -> OnImage(L, b, hostname, DecodedImage(url))
                  [] outcome = "empty" -> OnImage(L, b, hostname, NoImage)
                  [] outcome = "failure" -> OnError(L, b)
       IN  /\ imagery' = R.imagery
           /\ imageryCache' = R.cache
           /\ activeTileImageRequests' = R.active
           /\ inFlight' = [R.inFlight EXCEPT ![b] = @ - 1]
           /\ last' = [op |-> "complete", binding |-> b,
                       outcome |-> outcome,
                       issued |-> FALSE, logged |-> R.logged,
                       threw |-> R.threw, pre |-> Snapshot]
    /\ UNCHANGED <<urlPending, qvars>>

Outcomes == {"image", "empty", "failure"}

\* a call layer.createResources(context, imagery[b]); the provider creates
\* the texture or does not
CreateResources(b, made) ==
    /\ b \in DOMAIN imagery
    /\ LET L == Layer(imagery, imageryCache, activeTileImageRequests, inFlight)
           R == CreateResourcesOf(L, b, made)
       IN  /\ imagery' = R.imagery
           /\ imageryCache' = R.cache
           /\ activeTileImageRequests' = R.active
           /\ inFlight' = R.inFlight
           /\ last' = [op |-> "createResources", binding |-> b,
                       outcome |-> IF made THEN "made" ELSE "none",
                       issued |-> FALSE, logged |-> FALSE,
                       threw |-> R.threw, pre |-> Snapshot]
    /\ UNCHANGED <<urlPending, qvars>>

\* requestImagery is called for any binding, whatever its state
Request ==
    \E b \in DOMAIN imagery, resolution \in UrlResolutions :
        /\ inFlight[b] < MaxOwnFetches
        /\ resolution = "pending" => BagCardinality(urlPending) < MaxPendingUrls
        /\ RequestImagery(b, resolution)
        /\ UNCHANGED <<completed, failures>>

\* the URL promises settle in any order (one that resolves, while the
\* binding has fewer than MaxOwnFetches fetches in flight)
Settle ==
    \E b \in DOMAIN imagery, settlement \in UrlSettlements :
        /\ settlement = "resolved" => inFlight[b] < MaxOwnFetches
        /\ SettleUrl(b, settlement)
        /\ UNCHANGED <<completed, failures>>

\* the fetches complete in any order
Complete ==
    \E b \in DOMAIN imagery, outcome \in Outcomes :
        /\ CompleteFetch(b, outcome)
        /\ UNCHANGED <<completed, failures>>

INext == Request \/ Settle \/ Complete

\* the bindings of host "a" are requested in turn, each once its
\* predecessor has had a fetch issued, and never while a fetch or a URL
\* promise of their own is in flight; the URLs always resolve, at once or
\* later
CrowdRequest ==
    \E b \in DOMAIN imagery, resolution \in {"resolved", "pending"} :
        /\ inFlight[b] = 0
        /\ CopiesIn(b, urlPending) = 0
        /\ resolution = "pending" => BagCardinality(urlPending) < MaxPendingUrls
        /\ IF b = 1 \/ b > CrowdSize THEN TRUE
              ELSE imagery[b - 1].imageUrl # NoUrl
        /\ RequestImagery(b, resolution)
        /\ UNCHANGED <<completed, failures>>

\* the URL promise of a binding without a fetch in flight resolves
Resolve ==
    \E b \in DOMAIN imagery :
        /\ inFlight[b] = 0
        /\ SettleUrl(b, "resolved")
        /\ UNCHANGED <<completed, failures>>

\* at most MaxCrowdCompletions fetches complete, in any order
CrowdComplete ==
    \E b \in DOMAIN imagery, outcome \in Outcomes :
        /\ completed < MaxCrowdCompletions
        /\ CompleteFetch(b, outcome)
        /\ completed' = completed + 1
        /\ UNCHANGED failures

CrowdNext == CrowdRequest \/ Resolve \/ CrowdComplete

\* createResources is called for any binding, whatever its state; the
\* provider has a texture to create only for a RECEIVED binding
Create ==
    \E b \in DOMAIN imagery, made \in BOOLEAN :
        /\ made => imagery[b].state = "RECEIVED"
        /\ CreateResources(b, made)
        /\ UNCHANGED <<completed, failures>>

\* at most MaxResourceCompletions fetches complete, in any order
ResComplete ==
    \E b \in DOMAIN imagery, outcome \in Outcomes :
        /\ completed < MaxResourceCompletions
        /\ CompleteFetch(b, outcome)
        /\ completed' = completed + 1
        /\ UNCHANGED failures

RNext == Request \/ Settle \/ ResComplete \/ Create

\* createResources is called for a RECEIVED binding of the crowd and the
\* provider creates its texture
CrowdCreate ==
    \E b \in DOMAIN imagery :
        /\ imagery[b].state = "RECEIVED"
        /\ CreateResources(b, TRUE)
        /\ UNCHANGED <<completed, failures>>

\* the crowd of host "a", a second binding for the imagery tile of the first
\* one, and one binding for an imagery tile of host "b"
CrowdResInit ==
    /\ QInit
    /\ imagery = [b \in 1 .. CrowdSize + 2 |->
                    IF b <= CrowdSize THEN NewTileImagery(b - 1, 0, 3)
                    ELSE IF b = CrowdSize + 1 THEN NewTileImagery(0, 0, 3)
                    ELSE NewTileImagery(0, 1, 3)]
    /\ IQuiet

\* at most MaxCrowdCompletions fetches complete, the one of the lowest
\* binding first
CrowdCompleteInOrder ==
    \E b \in DOMAIN imagery, outcome \in Outcomes :
        /\ completed < MaxCrowdCompletions
        /\ \A c \in DOMAIN imagery : c < b => inFlight[c] = 0
        /\ CompleteFetch(b, outcome)
        /\ completed' = completed + 1
        /\ UNCHANGED failures

\* the crowd's requests and completions, and createResources
CrowdResNext ==
    CrowdRequest \/ Resolve \/ CrowdCompleteInOrder \/ CrowdCreate

\* one binding on each of two hosts
FailInit ==
    /\ QInit
    /\ imagery = << NewTileImagery(0, 0, 1), NewTileImagery(0, 1, 1) >>
    /\ IQuiet

\* a binding without a fetch or a URL promise in flight is requested; the
\* URL resolves, at once or later
FailRequest ==
    \E b \in DOMAIN imagery, resolution \in {"resolved", "pending"} :
        /\ inFlight[b] = 0
        /\ CopiesIn(b, urlPending) = 0
        /\ resolution = "pending" => BagCardinality(urlPending) < MaxPendingUrls
        /\ RequestImagery(b, resolution)
        /\ UNCHANGED <<completed, failures>>

\* a fetch completes and the failed fetches are counted
FailComplete ==
    \E b \in DOMAIN imagery, outcome \in Outcomes :
        /\ CompleteFetch(b, outcome)
        /\ failures' = Recorded(failures,
                           BuildImageUrl(imagery[b].x, imagery[b].y,
                                         imagery[b].level), outcome)
        /\ UNCHANGED completed

FailNext == FailRequest \/ Resolve \/ FailComplete

(***************************************************************************)
(* State and operations of the replacement queue                           *)
(***************************************************************************)
\* The TileImagery objects without the garbage that the operation before
\* left: a destroyed binding that is in no tile's list is referred to by
\* nothing.
Collected(t, im) ==
    LET reachable ==
            {b \in DOMAIN im :
                \/ ~im[b].destroyed
                \/ \E id \in TileIds(t) :
                      \E k \in 1 .. Len(t[id].imagery) : t[id].imagery[k] = b}
    IN  IF \A b \in DOMAIN im : ~im[b].destroyed THEN im
        ELSE [b \in reachable |-> im[b]]

\* an operation that creates and destroys no binding: the garbage is gone
KeepBindings ==
    /\ imagery' = Collected(tiles, imagery)
    /\ inFlight' = [b \in DOMAIN Collected(tiles, imagery) |-> inFlight[b]]
    /\ UNCHANGED <<imageryCache, activeTileImageRequests, urlPending, last,
                   completed, failures>>

\* Tile.prototype.getChildren: the children are constructed by the first call
\* and returned by every call
GetChildren(id) ==
    /\ id \in TileIds(tiles)
    /\ tiles[id].children = <<>> => Len(tiles) + 4 <= MaxTileObjects
    /\ LET n == Len(tiles)
           tiles1 == IF tiles[id].children = <<>>
                       THEN [tiles EXCEPT ![id].children =
                                        <<n + 1, n + 2, n + 3, n + 4>>]
                            \o NewChildren(tiles, id)
                       ELSE tiles
       IN  /\ tiles' = tiles1
           /\ hist' = [op |-> "getChildren", tile |-> id,
                       returned |-> tiles1[id].children, tiles |-> tiles]
    /\ UNCHANGED <<queue, indexBuffer, fault, frame, touched>>
    /\ KeepBindings

\* a call tiles[id].freeResources()
FreeTile(id) ==
    /\ id \in TileIds(tiles)
    /\ LET R == FreeResources(Heap(queue, tiles, indexBuffer, fault,
                                   Collected(tiles, imagery)), id)
       IN  /\ tiles' = R.t
           /\ indexBuffer' = R.ib
           /\ imagery' = R.im
    /\ hist' = [op |-> "freeResources", tile |-> id, tiles |-> tiles,
                indexBuffer |-> indexBuffer,
                imagery |-> Collected(tiles, imagery)]
    /\ UNCHANGED <<queue, fault, frame, touched>>
    /\ inFlight' = [b \in DOMAIN Collected(tiles, imagery) |-> inFlight[b]]
    /\ UNCHANGED <<imageryCache, activeTileImageRequests, urlPending, last,
                   completed, failures>>

\* The id of the TileImagery that loading creates for a tile: the ids after
\* those of the bindings that exist from the start, one per tile.  A tile
\* that is loaded again is UNLOADED, so its former binding is destroyed and
\* in no list: the new object takes its id.
BindingOfTile(id) == 2 + id

\* The loading pipeline starts on a tile of the queue: geometry is allocated,
\* a new TileImagery is pushed on the tile's list of overlay bindings and the
\* tile is TRANSITIONING.
BeginLoad(id) ==
    /\ id \in Linked(queue, tiles)
    /\ tiles[id].state = "UNLOADED"
    /\ LET new == NewTileImagery(tiles[id].x, tiles[id].y, tiles[id].level)
           b == BindingOfTile(id)
           live == DOMAIN Collected(tiles, imagery)
       IN  /\ imagery' = [c \in live \cup {b} |->
                             IF c = b THEN new ELSE imagery[c]]
           /\ inFlight' = [c \in live \cup {b} |->
                              IF c = b THEN 0 ELSE inFlight[c]]
           /\ tiles' = [tiles EXCEPT ![id].state = "TRANSITIONING",
                                     ![id].geometry = TRUE,
                                     ![id].imagery = <<b>>]
    /\ hist' = NoHist
    /\ UNCHANGED <<queue, indexBuffer, fault, frame, touched>>
    /\ UNCHANGED <<imageryCache, activeTileImageRequests, urlPending, last,
                   completed, failures>>

\* The loading pipeline ends: the vertex array is created on the shared index
\* buffer (a new buffer when the last one was destroyed) and the tile is READY.
FinishLoad(id) ==
    /\ id \in TileIds(tiles)
    /\ tiles[id].state = "TRANSITIONING"
    /\ tiles' = [tiles EXCEPT ![id].state = "READY",
                              ![id].vertexArray = TRUE,
                              ![id].transformedGeometry = TRUE]
    /\ indexBuffer' = IF indexBuffer.destroyed
                        THEN [referenceCount |-> 1, destroyed |-> FALSE]
                        ELSE [indexBuffer EXCEPT !.referenceCount = @ + 1]
    /\ hist' = NoHist
    /\ UNCHANGED <<queue, fault, frame, touched>>
    /\ KeepBindings

\* TileReplacementQueue.prototype.markStartOfRenderFrame
MarkStartOfRenderFrame ==
    /\ queue' = [queue EXCEPT !.lastBeforeStartOfFrame = queue.head]
    /\ frame' = [open |-> TRUE, marked |-> {}]
    /\ hist' = NoHist
    /\ UNCHANGED <<tiles, indexBuffer, fault, touched>>
    /\ KeepBindings

\* a call queue.markTileRendered(tiles[id])
MarkTileRendered(id) ==
    /\ id \in TileIds(tiles)
    /\ ~fault
    /\ id <= MaxVisible
    /\ LET R == MarkRendered(Heap(queue, tiles, indexBuffer, fault,
                                  Collected(tiles, imagery)), id)
       IN  /\ queue' = R.q
           /\ tiles' = R.t
           /\ fault' = R.fault
    /\ frame' = IF frame.open
                  THEN [frame EXCEPT !.marked = @ \cup {id}]
                  ELSE frame
    /\ touched' = IF touched.noTrim
                    THEN [noTrim |-> TRUE, marked |-> touched.marked \cup {id},
                          last |-> id,
                          remarked |-> touched.remarked \/ id \in touched.marked]
                    ELSE touched
    /\ hist' = NoHist
    /\ UNCHANGED indexBuffer
    /\ KeepBindings

\* a call queue.trimTiles(maxTiles)
TrimTiles(maxTiles) ==
    /\ ~fault
    /\ LET R == Trim(Heap(queue, tiles, indexBuffer, fault,
                          Collected(tiles, imagery)),
                     maxTiles)
       IN  /\ queue' = R.q
           /\ tiles' = R.t
           /\ indexBuffer' = R.ib
           /\ fault' = R.fault
           /\ imagery' = R.im
    /\ hist' = [op |-> "trimTiles", maxTiles |-> maxTiles,
                queue |-> queue, tiles |-> tiles,
                imagery |-> Collected(tiles, imagery),
                framed |-> frame.open, marked |-> frame.marked]
    /\ frame' = [open |-> FALSE, marked |-> {}]
    /\ touched' = [noTrim |-> FALSE, marked |-> {}, last |-> Undefined,
                   remarked |-> FALSE]
    /\ inFlight' = [b \in DOMAIN Collected(tiles, imagery) |-> inFlight[b]]
    /\ UNCHANGED <<imageryCache, activeTileImageRequests, urlPending, last,
                   completed, failures>>

QNext ==
    \/ \E id \in 1 .. MaxTileObjects : GetChildren(id)
    \/ \E id \in 1 .. MaxTileObjects : BeginLoad(id)
    \/ \E id \in 1 .. MaxTileObjects : FinishLoad(id)
    \/ MarkStartOfRenderFrame
    \/ \E id \in 1 .. MaxTileObjects : MarkTileRendered(id)
    \/ \E maxTiles \in 0 .. MaxTrimTarget : TrimTiles(maxTiles)

\* the tiles (level, x, y) a tile tree starts from
RootTiles == {<<0, 0, 0>>, <<1, 1, 1>>}

\* a new queue and one tile without parent
TInit ==
    /\ tiles \in {<<NewTile(r[1], r[2], r[3], Undefined)>> : r \in RootTiles}
    /\ queue = NewQueue
    /\ indexBuffer = [referenceCount |-> 0, destroyed |-> FALSE]
    /\ fault = FALSE
    /\ hist = NoHist
    /\ frame = [open |-> FALSE, marked |-> {}]
    /\ touched = [noTrim |-> TRUE, marked |-> {}, last |-> Undefined,
                  remarked |-> FALSE]

\* the tiles are visited, loaded and freed; getChildren and freeResources
\* are called on any tile
TNext ==
    \/ \E id \in 1 .. MaxTileObjects : GetChildren(id)
    \/ \E id \in 1 .. MaxTileObjects : BeginLoad(id)
    \/ \E id \in 1 .. MaxTileObjects : FinishLoad(id)
    \/ \E id \in 1 .. MaxTileObjects : MarkTileRendered(id)
    \/ \E id \in 1 .. MaxTileObjects : FreeTile(id)

\* tile objects that may exist where tiles are destroyed (the root and two
\* getChildren() calls)
MaxDestroyTileObjects == 9
\* destroy is called on the tiles 1 .. MaxDestroyTarget (the root, its
\* children and a grandchild)
MaxDestroyTarget == 6

\* a call of a method other than isDestroyed and destroy on a tile that was
\* destroyed: destroyObject put in its place a function that throws a
\* DeveloperError, and nothing else happens
ThrowDeveloperError(id, method) ==
    /\ hist' = [op |-> "callDestroyed", tile |-> id, method |-> method,
                tiles |-> tiles, threw |-> IsDestroyed(tiles, id)]
    /\ UNCHANGED <<tiles, queue, indexBuffer, fault, frame, touched>>
    /\ UNCHANGED ivars

\* a call tiles[id].getChildren(): on a destroyed tile it throws; otherwise
\* the children are constructed when the tile has no children array
CallGetChildren(id) ==
    /\ id \in TileIds(tiles)
    /\ IF IsDestroyed(tiles, id) THEN ThrowDeveloperError(id, "getChildren")
       ELSE
       /\ ~ChildrenDefined(tiles, id) =>
              Len(tiles) + 4 <= MaxDestroyTileObjects
       /\ LET n == Len(tiles)
              tiles1 == IF ~ChildrenDefined(tiles, id)
                          THEN [tiles EXCEPT ![id].children =
                                           <<n + 1, n + 2, n + 3, n + 4>>]
                               \o NewChildren(tiles, id)
                          ELSE tiles
          IN  /\ tiles' = tiles1
              /\ hist' = [op |-> "getChildren", tile |-> id,
                          returned |-> tiles1[id].children, tiles |-> tiles]
       /\ UNCHANGED <<queue, indexBuffer, fault, frame, touched>>
       /\ UNCHANGED ivars

\* a call tiles[id].freeResources() on a destroyed tile (SpecTiles has the
\* calls on the tiles that are not destroyed)
CallFreeResources(id) ==
    /\ id \in TileIds(tiles)
    /\ IsDestroyed(tiles, id)
    /\ ThrowDeveloperError(id, "freeResources")

\* The loading pipeline runs to its end on one of the tiles the render loop
\* visits: the tile is READY with geometry and a vertex array on the shared
\* index buffer.
LoadTile(id) ==
    /\ id \in TileIds(tiles)
    /\ id <= MaxVisible
    /\ ~IsDestroyed(tiles, id)
    /\ tiles[id].state = "UNLOADED"
    /\ tiles' = [tiles EXCEPT ![id].state = "READY",
                              ![id].geometry = TRUE,
                              ![id].transformedGeometry = TRUE,
                              ![id].vertexArray = TRUE]
    /\ indexBuffer' = IF indexBuffer.destroyed
                        THEN [referenceCount |-> 1, destroyed |-> FALSE]
                        ELSE [indexBuffer EXCEPT !.referenceCount = @ + 1]
    /\ hist' = NoHist
    /\ UNCHANGED <<queue, fault, frame, touched>>
    /\ UNCHANGED ivars

\* a call tiles[id].destroy(), on a tile destroyed or not
DestroyTile(id) ==
    /\ id \in TileIds(tiles)
    /\ LET R == Destroy(Destroying(tiles), id)
       IN  /\ tiles' = R.t
           /\ hist' = [op |-> "destroy", tile |-> id, tiles |-> tiles,
                       threw |-> R.threw, order |-> R.order]
    /\ UNCHANGED <<queue, indexBuffer, fault, frame, touched>>
    /\ UNCHANGED ivars

\* tile trees are built, loaded and destroyed
DNext ==
    \/ \E id \in 1 .. MaxDestroyTileObjects : CallGetChildren(id)
    \/ \E id \in 1 .. MaxDestroyTileObjects : CallFreeResources(id)
    \/ \E id \in 1 .. MaxDestroyTileObjects : LoadTile(id)
    \/ \E id \in 1 .. MaxDestroyTarget : DestroyTile(id)

\* the numbers a description gives for x, y, level and zoom are
\* -1 .. MaxCoordinate
MaxCoordinate == 1

\* a property of a description that is a number, or absent
Numbers == {Absent} \cup {Given(v) : v \in -1 .. MaxCoordinate}

\* an extent or a tiling scheme, or absent
Objects == {Absent, Given("object")}

\* the arguments of new Tile(description): no description, or one with any of
\* its properties absent
Descriptions ==
    {Absent} \cup
    {Given(d) : d \in [x : Numbers, y : Numbers, level : Numbers,
                       zoom : Numbers, extent : Objects,
                       tilingScheme : Objects]}

\* a call new Tile(description): the tile, or the DeveloperError thrown
Construct(description) ==
    /\ hist' = [op |-> "construct", description |-> description,
                result |-> TileConstructor(description)]
    /\ UNCHANGED <<tiles, queue, indexBuffer, fault, frame, touched>>
    /\ UNCHANGED ivars

CNext == \E description \in Descriptions : Construct(description)

\* the tile has 0 .. MaxPriorBindings bindings of other layers when
\* createTileImagerySkeletons is called
MaxPriorBindings == 1
\* imageryProvider.maxLevel is 0 .. MaxImageryLevel
MaxImageryLevel == 2

\* the edges of the extents of terrain tiles
TileLongitudes == {-6, -3, 0, 6}
TileLatitudes == {-3, -2, 0, 1, 3}

\* tile.extent: an extent with area
TileExtents ==
    {x \in [west : TileLongitudes, south : TileLatitudes,
            east : TileLongitudes, north : TileLatitudes] :
         x.west < x.east /\ x.south < x.north}

\* Extent.MAX_VALUE
MaxValueExtent == Extent(WorldWest, WorldSouth, WorldEast, WorldNorth)

\* imageryProvider.extent: the world, the northeast quarter, or a band of the
\* southern hemisphere
ProviderExtents ==
    {MaxValueExtent, Extent(0, 0, 6, 3), Extent(-6, -3, 0, -1)}

\* the layer's extent: the provider's by default, or one given to the layer
LayerExtents(providerExtent) == {providerExtent, Extent(-3, -2, 3, 2)}

\* the imagery layers createTileImagerySkeletons is called on
ImageryLayers ==
    UNION {{ImageryLayer(pe, ml, le) :
                ml \in 0 .. MaxImageryLevel, le \in LayerExtents(pe)} :
           pe \in ProviderExtents}

\* terrainProvider.getLevelMaximumGeometricError(tile.level)
GeometricErrors == {1, 3, 8}

\* a new queue, and a tile with the bindings other layers gave it: the
\* imagery tile (0, 0) of level 0, once per layer
SkeletonInit ==
    /\ \E n \in 0 .. MaxPriorBindings :
          /\ imagery = [b \in 1 .. n |-> NewTileImagery(0, 0, 0)]
          /\ tiles = << [NewTile(0, 0, 0, Undefined) EXCEPT
                             !.imagery = [b \in 1 .. n |-> b]] >>
    /\ queue = NewQueue
    /\ indexBuffer = [referenceCount |-> 0, destroyed |-> FALSE]
    /\ fault = FALSE
    /\ hist = NoHist
    /\ frame = [open |-> FALSE, marked |-> {}]
    /\ touched = [noTrim |-> TRUE, marked |-> {}, last |-> Undefined,
                  remarked |-> FALSE]
    /\ IQuiet

\* the bindings of a tile
BindingsOf(t, im, id) ==
    [k \in 1 .. Len(t[id].imagery) |-> im[t[id].imagery[k]]]

\* a call layer.createTileImagerySkeletons(tiles[id], terrainProvider), where
\* tileExtent is the tile's extent and geometricError what the terrain
\* provider gives for the tile's level
CreateTileImagerySkeletons(layer, id, tileExtent, geometricError) ==
    /\ id \in TileIds(tiles)
    /\ LET own == BindingsOf(tiles, imagery, id)
           R == CreateTileImagerySkeletonsOf(layer, tileExtent, own,
                                             geometricError)
           added == SubSeq(R.imagery, Len(own) + 1, Len(R.imagery))
           n == Len(imagery)
       IN  /\ imagery' = imagery \o added
           /\ tiles' = [tiles EXCEPT ![id].imagery =
                            @ \o [k \in 1 .. Len(added) |-> n + k]]
           /\ inFlight' = [b \in 1 .. n + Len(added) |->
                              IF b <= n THEN inFlight[b] ELSE 0]
           /\ hist' = [op |-> "createTileImagerySkeletons", tile |-> id,
                       layer |-> layer, tileExtent |-> tileExtent,
                       geometricError |-> geometricError,
                       result |-> R, tiles |-> tiles, imagery |-> imagery]
    /\ UNCHANGED <<queue, indexBuffer, fault, frame, touched>>
    /\ UNCHANGED <<imageryCache, activeTileImageRequests, urlPending, last,
                   completed, failures>>

\* one layer is asked for the bindings of the tile, once
SkeletonNext ==
    /\ hist = NoHist
    /\ \E layer \in ImageryLayers, id \in 1 .. MaxTileObjects,
          tileExtent \in TileExtents, geometricError \in GeometricErrors :
           CreateTileImagerySkeletons(layer, id, tileExtent, geometricError)

\* a new queue and tile tree, and the two bindings of one imagery tile
Init == QInit /\ IInit

SpecQueue == Init /\ [][QNext]_vars

\* a tile tree of any root, and the two bindings of one imagery tile
InitTiles == TInit /\ IInit

SpecTiles == InitTiles /\ [][TNext]_vars

\* tile trees two levels deep, with destroy
SpecDestroy == Init /\ [][DNext]_vars

\* tiles are constructed from any description
SpecConstruct == Init /\ [][CNext]_vars

\* a tile and the layers that give it bindings
SpecSkeletons == SkeletonInit /\ [][SkeletonNext]_vars

\* the imagery layer alone: the tiles and the queue stay as constructed
SpecImagery == Init /\ [][INext]_vars

\* a new queue and tile tree, and the crowd of bindings of one host
SpecHostCap == CrowdInit /\ [][CrowdNext]_vars

\* the crowd of one host with createResources: cache hits of both kinds and
\* postponed requests
SpecCrowdResources == CrowdResInit /\ [][CrowdResNext]_vars

\* requestImagery, the completions and createResources
SpecResources == Init /\ [][RNext]_vars

\* a new queue and tile tree, and one binding on each of two hosts
SpecFailures == FailInit /\ [][FailNext]_vars

(***************************************************************************)
(* Properties of the replacement queue                                     *)
(***************************************************************************)
\* the list is well formed: no tile is met twice from the head, the
\* previous links mirror the next links, head and tail are its two ends and
\* a tile outside the list has no link
WellLinked(q, t) ==
    LET c == Chain(q, t)
    IN  /\ Len(c) <= Len(t)
        /\ \A i, j \in 1 .. Len(c) : c[i] = c[j] => i = j
        /\ \A i \in 1 .. Len(c) :
              t[c[i]].replacementPrevious = IF i = 1 THEN Undefined ELSE c[i - 1]
        /\ q.head = IF Len(c) = 0 THEN Undefined ELSE c[1]
        /\ q.tail = IF Len(c) = 0 THEN Undefined ELSE c[Len(c)]
        /\ \A id \in TileIds(t) \ Range(c) :
              /\ t[id].replacementPrevious = Undefined
              /\ t[id].replacementNext = Undefined

\* C1: after any sequence of markStartOfRenderFrame, markTileRendered and
\* trimTiles calls, count is the number of tiles reachable from head, every
\* tile is linked at most once, the previous/next links are consistent, and
\* head and tail are the two ends of the chain, both undefined exactly when
\* count is 0.
C1_QueueIntegrity ==
    /\ ~fault
    /\ WellLinked(queue, tiles)
    /\ queue.count = Len(Chain(queue, tiles))
    /\ (queue.count = 0) <=> (queue.head = Undefined /\ queue.tail = Undefined)

\* C1 witness: a trimTiles call unlinked a tile out of a list of at least
\* three and left at least two linked.
C1_Witness ==
    /\ hist.op = "trimTiles"
    /\ hist.queue.count >= 3
    /\ queue.count >= 2
    /\ queue.count < hist.queue.count

\* C2: while no trimTiles has run, count is the number of distinct tiles
\* passed to markTileRendered and head is the tile of the latest call.
C2_LruAfterMarks ==
    touched.noTrim =>
        /\ queue.count = Cardinality(touched.marked)
        /\ Linked(queue, tiles) = touched.marked
        /\ queue.head = touched.last

\* C2 witness: three distinct tiles were marked, one of them more than once.
C2_Witness ==
    /\ touched.noTrim
    /\ touched.remarked
    /\ Cardinality(touched.marked) >= 3
    /\ queue.head = touched.last

\* the tiles of the list the trimTiles call found that were nearer the head
\* than lastBeforeStartOfFrame (none when the marker was undefined)
FrontOfMarker(h) ==
    LET c == Chain(h.queue, h.tiles)
        k == IndexOf(c, h.queue.lastBeforeStartOfFrame)
    IN  {c[i] : i \in 1 .. (IF k = 0 THEN 0 ELSE k - 1)}

\* C3 as stated: trimTiles removes neither the tile that is
\* lastBeforeStartOfFrame when it is called nor any tile between it and the
\* head.
C3_MarkerAndFrontKept ==
    hist.op = "trimTiles" =>
        \A id \in FrontOfMarker(hist) \cup
                  ({hist.queue.lastBeforeStartOfFrame} \ {Undefined}) :
            id \in Linked(queue, tiles)

\* C3 amended: trimTiles removes no tile nearer the head than the tile that
\* is lastBeforeStartOfFrame when it is called (that tile itself may be
\* removed), and removes nothing when the marker is undefined.
C3_FrontKept ==
    hist.op = "trimTiles" =>
        /\ \A id \in FrontOfMarker(hist) : id \in Linked(queue, tiles)
        /\ hist.queue.lastBeforeStartOfFrame = Undefined =>
              Linked(queue, tiles) = Linked(hist.queue, hist.tiles)

\* C3 witness: a trimTiles call removed the marker tile and kept the tiles
\* in front of it, with count still above maxTiles.
C3_Witness ==
    /\ hist.op = "trimTiles"
    /\ hist.queue.lastBeforeStartOfFrame # Undefined
    /\ hist.queue.lastBeforeStartOfFrame \notin Linked(queue, tiles)
    /\ FrontOfMarker(hist) # {}
    /\ FrontOfMarker(hist) \subseteq Linked(queue, tiles)
    /\ queue.count > hist.maxTiles

\* C4: every tile that is TRANSITIONING when trimTiles is called is still
\* linked, still TRANSITIONING and has its geometry, vertex array and overlay
\* bindings unchanged when trimTiles returns.
C4_TransitioningUntouched ==
    hist.op = "trimTiles" =>
        \A id \in TileIds(hist.tiles) :
            hist.tiles[id].state = "TRANSITIONING" =>
                /\ id \in Linked(queue, tiles)
                /\ tiles[id].state = "TRANSITIONING"
                /\ tiles[id].geometry = hist.tiles[id].geometry
                /\ tiles[id].vertexArray = hist.tiles[id].vertexArray
                /\ tiles[id].imagery = hist.tiles[id].imagery

\* C5: in a frame markStartOfRenderFrame, markTileRendered calls, trimTiles,
\* every tile marked rendered in the frame is still linked when trimTiles
\* returns.
C5_FrameTilesKept ==
    (hist.op = "trimTiles" /\ hist.framed) =>
        hist.marked \subseteq Linked(queue, tiles)

\* C5 witness: a frame's trimTiles removed tiles, kept the marked ones and
\* returned with count above maxTiles.
C5_Witness ==
    /\ hist.op = "trimTiles"
    /\ hist.framed
    /\ Cardinality(hist.marked) >= 2
    /\ hist.marked \subseteq Linked(queue, tiles)
    /\ queue.count < hist.queue.count
    /\ queue.count > hist.maxTiles

(***************************************************************************)
(* Properties of requestImagery                                            *)
(***************************************************************************)
\* the URL buildImageUrl gives for binding b
UrlOf(b) == BuildImageUrl(imagery[b].x, imagery[b].y, imagery[b].level)

\* the hostnames of the layer's image URLs
Hostnames == {GetHostname(UrlOf(b)) : b \in DOMAIN imagery}

RECURSIVE SumOver(_, _)
\* the sum of f over the set S
SumOver(f, S) ==
    IF S = {} THEN 0
    ELSE LET b == CHOOSE x \in S : TRUE
         IN  f[b] + SumOver(f, S \ {b})

\* the fetches in flight to a hostname, and for a URL
FetchesOnHost(hostname) ==
    SumOver(inFlight, {b \in DOMAIN imagery : GetHostname(UrlOf(b)) = hostname})

FetchesOfUrl(url) ==
    SumOver(inFlight, {b \in DOMAIN imagery : UrlOf(b) = url})

\* C6: for any host at most 6 image fetches are in flight at any time.
C6_AtMostSixInFlight ==
    \A hostname \in Hostnames : FetchesOnHost(hostname) <= HostRequestCap

\* C7: the in-flight counter of each host equals the number of fetches to
\* that host issued and not yet completed, and is never negative.
C7_CounterIsInFlight ==
    \A hostname \in Hostnames :
        /\ ActiveRequests(activeTileImageRequests, hostname) >= 0
        /\ ActiveRequests(activeTileImageRequests, hostname)
              = FetchesOnHost(hostname)

\* C8: a host is never blocked: right after a fetch to it completes, and
\* whenever no fetch to it is in flight, a requestImagery for an uncached URL
\* of that host is admitted.
C8_HostNeverBlocked ==
    \A hostname \in Hostnames :
        (\/ FetchesOnHost(hostname) = 0
         \/ /\ last.op = "complete"
            /\ GetHostname(UrlOf(last.binding)) = hostname)
        => ~OverCap(activeTileImageRequests, hostname)

\* C9: for every image URL at most one fetch is in flight at any time.
C9_OneFetchPerUrl ==
    \A b \in DOMAIN imagery : FetchesOfUrl(UrlOf(b)) <= 1

\* C10: a fetch that completes leaves its binding RECEIVED with the image
\* attached, INVALID when there was no image, FAILED when the fetch failed; a
\* URL resolution that fails (buildImageUrl rejects or throws) leaves it
\* FAILED; the failure is logged; no exception leaves requestImagery or a
\* completion; and no other binding changes state.
C10_CompletionSetsState ==
    LET b == last.binding
        OthersKept == \A c \in DOMAIN imagery \ {b} :
                          imagery[c] = last.pre.imagery[c]
    IN  /\ last.op = "complete" =>
              /\ last.outcome = "image" =>
                    /\ imagery[b].state = "RECEIVED"
                    /\ imagery[b].image = DecodedImage(UrlOf(b))
                    /\ ~last.logged
              /\ last.outcome = "empty" =>
                    /\ imagery[b].state = "INVALID"
                    /\ imagery[b].image = NoImage
              /\ last.outcome = "failure" =>
                    /\ imagery[b].state = "FAILED"
                    /\ last.logged
              /\ ~last.threw
              /\ OthersKept
        /\ last.op = "requestImagery" =>
              /\ ~last.threw
              /\ OthersKept
              /\ last.outcome \in {"rejected", "threw"} =>
                    /\ imagery[b].state = "FAILED"
                    /\ last.logged

\* a URL has a pending entry in the cache: an entry without texture
PendingEntry(cache, url) ==
    CacheHas(cache, url) /\ cache[url].texture = NoTexture

\* C11: when a fetch has ended with an empty response (INVALID) or a failure
\* (FAILED), its URL has no pending cache entry, and a requestImagery that
\* comes next, for that URL and with the host under the cap, issues a fetch
\* (or is served READY from a texture the cache holds for the URL by then)
\* instead of being left UNLOADED as in flight; and the binding whose request
\* added a pending entry has a fetch in flight or is neither INVALID nor
\* FAILED.
C11_EndedFetchFreesUrl ==
    /\ []((last.op = "complete" /\ last.outcome \in {"empty", "failure"})
            => ~PendingEntry(imageryCache, UrlOf(last.binding)))
    /\ [][(/\ last.op = "complete"
            /\ last.outcome \in {"empty", "failure"}
            /\ last'.op = "requestImagery"
            /\ last'.outcome = "resolved"
            /\ UrlOf(last'.binding) = UrlOf(last.binding)
            /\ ~OverCap(activeTileImageRequests,
                        GetHostname(UrlOf(last.binding))))
           => \/ last'.issued
              \/ /\ CacheHas(imageryCache, UrlOf(last.binding))
                 /\ ~PendingEntry(imageryCache, UrlOf(last.binding))
                 /\ imagery'[last'.binding].state = "READY"]_vars
    /\ [](\A url \in DOMAIN imageryCache :
             imageryCache[url].texture = NoTexture =>
                 \/ inFlight[imageryCache[url].by] > 0
                 \/ imagery[imageryCache[url].by].state
                       \notin {"INVALID", "FAILED"})

\* C12: once more than maxTileFailCount fetches of the layer have failed in
\* a row, requestImagery issues no fetch.
C12_LayerFailCapStopsFetches ==
    (last.op = "requestImagery" /\ failures.consecutive > MaxTileFailCount)
        => ~last.issued

\* C13: once the fetch of an imagery tile has failed more than
\* perTileMaxFailCount times, requestImagery issues no fetch for that tile.
C13_TileFailCapStopsFetches ==
    (/\ last.op = "requestImagery"
     /\ FailuresOf(failures, UrlOf(last.binding)) > PerTileMaxFailCount)
        => ~last.issued

\* C14: a requestImagery whose URL has a cache entry with a texture leaves
\* the binding READY with the cached texture, issues no fetch and changes
\* neither the cache nor the host counters (texture c is the one made from the
\* image that binding c loaded).  The cache entry is the one the first
\* callback finds, inside the call or later, when the URL promise resolves.
C14_CacheHitSharesTexture ==
    (/\ last.op = "requestImagery"
     /\ last.outcome = "resolved"
     /\ CacheHas(last.pre.cache, UrlOf(last.binding))
     /\ last.pre.cache[UrlOf(last.binding)].texture # NoTexture) =>
        LET b == last.binding
            entry == last.pre.cache[UrlOf(b)]
        IN  /\ imagery[b].state = "READY"
            /\ imagery[b].texture = entry.texture
            /\ ~last.issued
            /\ inFlight = last.pre.inFlight
            /\ imageryCache = last.pre.cache
            /\ activeTileImageRequests = last.pre.active

\* C14 witness: a binding that never had a texture was requested, found the
\* texture another binding of the URL had loaded and registered, and is READY
\* with it.
C14_Witness ==
    /\ last.op = "requestImagery"
    /\ last.outcome = "resolved"
    /\ CacheHas(last.pre.cache, UrlOf(last.binding))
    /\ last.pre.cache[UrlOf(last.binding)].texture # NoTexture
    /\ last.pre.imagery[last.binding].texture = NoTexture
    /\ last.pre.imagery[last.binding].state = "UNLOADED"
    /\ imagery[last.binding].state = "READY"
    /\ \E c \in DOMAIN imagery \ {last.binding} :
          /\ UrlOf(c) = UrlOf(last.binding)
          /\ imagery[c].state = "READY"
          /\ imagery[c].texture = c
          /\ imagery[last.binding].texture = c

\* C15: createResources registers the binding's texture under the binding's
\* imageUrl and clears the imageUrl exactly when the binding is READY after
\* the provider's createResources; otherwise the cache and the imageUrl are
\* unchanged.
C15_CreateResourcesRegisters ==
    last.op = "createResources" =>
        LET b == last.binding
            url == last.pre.imagery[b].imageUrl
        IN  IF imagery[b].state = "READY"
              THEN /\ CacheHas(imageryCache, url)
                   /\ imageryCache[url].texture = imagery[b].texture
                   /\ imagery[b].imageUrl = NoUrl
                   /\ \A k \in DOMAIN last.pre.cache \ {url} :
                         /\ CacheHas(imageryCache, k)
                         /\ imageryCache[k] = last.pre.cache[k]
              ELSE /\ imageryCache = last.pre.cache
                   /\ imagery[b].imageUrl = url

\* C15 witness: createResources on a RECEIVED binding whose URL had a pending
\* entry left the binding READY, its texture registered and its imageUrl
\* cleared.
C15_Witness ==
    /\ last.op = "createResources"
    /\ last.pre.imagery[last.binding].state = "RECEIVED"
    /\ last.pre.imagery[last.binding].imageUrl = UrlOf(last.binding)
    /\ CacheHas(last.pre.cache, UrlOf(last.binding))
    /\ last.pre.cache[UrlOf(last.binding)].texture = NoTexture
    /\ imagery[last.binding].state = "READY"
    /\ imagery[last.binding].imageUrl = NoUrl
    /\ imageryCache[UrlOf(last.binding)].texture = imagery[last.binding].texture
    /\ imagery[last.binding].texture # NoTexture

(***************************************************************************)
(* Properties of trimTiles: budget and order                               *)
(***************************************************************************)
\* the tiles a trimTiles call unlinked
Removed(h) == Linked(h.queue, h.tiles) \ Linked(queue, tiles)

\* C16: trimTiles removes no tile when count <= maxTiles, never takes count
\* below maxTiles, links no tile, and when it removes a tile T it has removed
\* every tile nearer the tail than T that was not TRANSITIONING.
C16_TrimInLruOrderToBudget ==
    hist.op = "trimTiles" =>
        LET c == Chain(hist.queue, hist.tiles)
        IN  /\ hist.queue.count <= hist.maxTiles => Removed(hist) = {}
            /\ Removed(hist) # {} => queue.count >= hist.maxTiles
            /\ Linked(queue, tiles) \subseteq Range(c)
            /\ queue.count = hist.queue.count - Cardinality(Removed(hist))
            /\ \A i, j \in 1 .. Len(c) :
                  (/\ c[i] \in Removed(hist)
                   /\ i < j
                   /\ hist.tiles[c[j]].state # "TRANSITIONING")
                      => c[j] \in Removed(hist)

\* C16 witness: a trimTiles call skipped the TRANSITIONING tail, removed the
\* tile in front of it and stopped at count = maxTiles with the marker tile,
\* not TRANSITIONING, still linked.
C16_Witness ==
    /\ hist.op = "trimTiles"
    /\ hist.maxTiles > 0
    /\ queue.count = hist.maxTiles
    /\ Removed(hist) # {}
    /\ hist.tiles[hist.queue.tail].state = "TRANSITIONING"
    /\ hist.queue.tail \in Linked(queue, tiles)
    /\ hist.queue.lastBeforeStartOfFrame \in Linked(queue, tiles)
    /\ hist.tiles[hist.queue.lastBeforeStartOfFrame].state # "TRANSITIONING"

\* C17: when the trimTiles of a frame returns, count <= maxTiles or every
\* tile still linked was marked rendered in the frame or is TRANSITIONING.
C17_FrameTrimBoundsResidents ==
    (hist.op = "trimTiles" /\ hist.framed) =>
        \/ queue.count <= hist.maxTiles
        \/ \A id \in Linked(queue, tiles) :
              \/ id \in hist.marked
              \/ tiles[id].state = "TRANSITIONING"

(***************************************************************************)
(* Properties of Tile                                                      *)
(***************************************************************************)
\* C18: getChildren returns 4 tiles of level + 1 at (2x, 2y), (2x+1, 2y),
\* (2x, 2y+1), (2x+1, 2y+1) in that order, each with the tile as parent; a
\* call on a tile that has children returns that array and creates no tile;
\* and freeResources changes no children array and creates no tile.
C18_GetChildrenQuadrants ==
    /\ hist.op = "getChildren" =>
          LET t == hist.tile
              kids == hist.returned
              Offsets == <<(<<0, 0>>), (<<1, 0>>), (<<0, 1>>), (<<1, 1>>)>>
          IN  /\ Len(kids) = 4
              /\ tiles[t].children = kids
              /\ \A i \in 1 .. 4 :
                    /\ kids[i] \in TileIds(tiles)
                    /\ tiles[kids[i]].level = tiles[t].level + 1
                    /\ tiles[kids[i]].x = 2 * tiles[t].x + Offsets[i][1]
                    /\ tiles[kids[i]].y = 2 * tiles[t].y + Offsets[i][2]
                    /\ tiles[kids[i]].parent = t
              /\ \A i, j \in 1 .. 4 : kids[i] = kids[j] => i = j
              /\ hist.tiles[t].children # <<>> =>
                    /\ kids = hist.tiles[t].children
                    /\ tiles = hist.tiles
    /\ hist.op = "freeResources" =>
          /\ Len(tiles) = Len(hist.tiles)
          /\ \A id \in TileIds(tiles) :
                tiles[id].children = hist.tiles[id].children

\* C18 witness: getChildren was called on a tile whose children already
\* existed, after the tiles had been loaded and freed (the index buffer is
\* destroyed and every tile is UNLOADED), on a tile with x, y > 0.
C18_Witness ==
    /\ hist.op = "getChildren"
    /\ hist.tiles[hist.tile].children # <<>>
    /\ hist.returned = hist.tiles[hist.tile].children
    /\ tiles[hist.tile].x > 0
    /\ tiles[hist.tile].y > 0
    /\ indexBuffer.destroyed
    /\ \A id \in TileIds(tiles) : tiles[id].state = "UNLOADED"

\* the bindings in the lists of a tile and its materialized descendants
BindingsUnder(t, id) ==
    UNION {{t[d].imagery[k] : k \in 1 .. Len(t[d].imagery)} :
              d \in Subtree(t, id)}

\* C19: after freeResources on a tile, the tile and its materialized
\* descendants are UNLOADED without vertex array, geometry, transformed
\* geometry or overlay bindings, and every binding that was in the list of
\* one of them is destroyed; no tile is created or lost, every tile keeps
\* its coordinates, parent, children and list links, and the tiles outside
\* the subtree and their bindings are unchanged.
C19_FreeResourcesUnloadsSubtree ==
    hist.op = "freeResources" =>
        /\ \A id \in Subtree(hist.tiles, hist.tile) :
              /\ tiles[id].state = "UNLOADED"
              /\ ~tiles[id].vertexArray
              /\ ~tiles[id].geometry
              /\ ~tiles[id].transformedGeometry
              /\ tiles[id].imagery = <<>>
              /\ \A k \in 1 .. Len(hist.tiles[id].imagery) :
                    LET b == hist.tiles[id].imagery[k]
                    IN  /\ b \in DOMAIN imagery
                        /\ ~hist.imagery[b].destroyed
                        /\ imagery[b].destroyed
        /\ DOMAIN imagery = DOMAIN hist.imagery
        /\ \A b \in DOMAIN imagery \ BindingsUnder(hist.tiles, hist.tile) :
              imagery[b] = hist.imagery[b]
        /\ Len(tiles) = Len(hist.tiles)
        /\ \A id \in TileIds(tiles) :
              /\ tiles[id].level = hist.tiles[id].level
              /\ tiles[id].x = hist.tiles[id].x
              /\ tiles[id].y = hist.tiles[id].y
              /\ tiles[id].parent = hist.tiles[id].parent
              /\ tiles[id].children = hist.tiles[id].children
              /\ tiles[id].replacementPrevious = hist.tiles[id].replacementPrevious
              /\ tiles[id].replacementNext = hist.tiles[id].replacementNext
        /\ \A id \in TileIds(tiles) \ Subtree(hist.tiles, hist.tile) :
              tiles[id] = hist.tiles[id]

\* C19 witness: freeResources on a READY tile that has children, one of them
\* READY and one TRANSITIONING, each of the three with a binding; all of
\* them are UNLOADED, their three bindings are destroyed, a binding of no
\* tile is not, and the children array is the same.
C19_Witness ==
    /\ hist.op = "freeResources"
    /\ hist.tiles[hist.tile].state = "READY"
    /\ hist.tiles[hist.tile].children # <<>>
    /\ \E c, d \in Subtree(hist.tiles, hist.tile) \ {hist.tile} :
          /\ hist.tiles[c].state = "READY"
          /\ hist.tiles[d].state = "TRANSITIONING"
          /\ hist.tiles[d].imagery # <<>>
          /\ hist.tiles[c].imagery # <<>>
          /\ tiles[c].state = "UNLOADED"
          /\ tiles[d].state = "UNLOADED"
          /\ imagery[hist.tiles[c].imagery[1]].destroyed
          /\ imagery[hist.tiles[d].imagery[1]].destroyed
    /\ Cardinality(BindingsUnder(hist.tiles, hist.tile)) = 3
    /\ \A b \in BindingsUnder(hist.tiles, hist.tile) :
          ~hist.imagery[b].destroyed /\ imagery[b].destroyed
    /\ \E b \in DOMAIN imagery : ~imagery[b].destroyed
    /\ tiles[hist.tile].children = hist.tiles[hist.tile].children

\* the tiles that hold a vertex array
Holders(t) == {id \in TileIds(t) : t[id].vertexArray}

\* C20: the reference count of the shared index buffer is the number of
\* tiles that hold a vertex array on it and never negative; the buffer is
\* destroyed only with no holder left, and a freeResources call destroys it
\* exactly when it releases the last vertex arrays.
C20_IndexBufferReleasedAtZero ==
    /\ indexBuffer.referenceCount >= 0
    /\ ~indexBuffer.destroyed =>
          indexBuffer.referenceCount = Cardinality(Holders(tiles))
    /\ indexBuffer.destroyed =>
          /\ Holders(tiles) = {}
          /\ indexBuffer.referenceCount = 0
    /\ hist.op = "freeResources" =>
          /\ (indexBuffer.destroyed /\ ~hist.indexBuffer.destroyed)
                <=> (Holders(hist.tiles) # {} /\ Holders(tiles) = {})
          /\ ~hist.tiles[hist.tile].vertexArray
                /\ hist.tiles[hist.tile].children = <<>>
                => indexBuffer = hist.indexBuffer

\* C20 witness: one freeResources call, on a tile with children, released
\* the vertex arrays of the two or more tiles that shared the buffer and
\* destroyed it.
C20_Witness ==
    /\ hist.op = "freeResources"
    /\ hist.indexBuffer.referenceCount >= 2
    /\ Cardinality(Holders(hist.tiles)) = hist.indexBuffer.referenceCount
    /\ ~hist.indexBuffer.destroyed
    /\ indexBuffer.destroyed
    /\ indexBuffer.referenceCount = 0
    /\ Holders(tiles) = {}

\* C27: trimTiles changes the state and payload only of the tiles it unlinks:
\* a tile marked rendered in the current frame keeps its state, geometry,
\* vertex array and overlay bindings across trimTiles, also when one of its
\* ancestors is evicted by the same call.
C27_FrameTilesKeepPayload ==
    (hist.op = "trimTiles" /\ hist.framed) =>
        \A id \in hist.marked :
            /\ tiles[id].state = hist.tiles[id].state
            /\ tiles[id].geometry = hist.tiles[id].geometry
            /\ tiles[id].transformedGeometry =
                   hist.tiles[id].transformedGeometry
            /\ tiles[id].vertexArray = hist.tiles[id].vertexArray
            /\ tiles[id].imagery = hist.tiles[id].imagery

(***************************************************************************)
(* Tile.destroy                                                            *)
(***************************************************************************)
\* the place of a tile in the order of destruction (0: not destroyed)
DestroyedAt(order, id) ==
    IF \E i \in 1 .. Len(order) : order[i] = id
      THEN CHOOSE i \in 1 .. Len(order) : order[i] = id
      ELSE 0

\* the call destroyed the whole subtree of the tile: every descendant before
\* its parent, each tile once, the vertex arrays and the children arrays gone
SubtreeDestroyed ==
    LET S == Subtree(hist.tiles, hist.tile)
    IN  /\ ~hist.threw
        /\ \A d \in S :
              /\ IsDestroyed(tiles, d)
              /\ DestroyedAt(hist.order, d) > 0
              /\ tiles[d].children = <<>>
              /\ ~tiles[d].vertexArray
              /\ \A c \in Subtree(hist.tiles, d) \ {d} :
                    DestroyedAt(hist.order, c) < DestroyedAt(hist.order, d)
        /\ Len(hist.order) = Cardinality(S)
        /\ \A id \in TileIds(tiles) \ S : tiles[id] = hist.tiles[id]

\* the call failed with a DeveloperError and destroyed nothing
FailedUntouched ==
    /\ hist.threw
    /\ tiles = hist.tiles

\* C21 as stated: destroy on a tile that is not destroyed destroys every
\* materialized descendant before the tile itself and leaves the children
\* array empty; destroy, or any other method, on a destroyed tile fails with
\* a DeveloperError and destroys nothing.
C21_DestroyDestroysSubtree ==
    /\ hist.op = "destroy" =>
          IF IsDestroyed(hist.tiles, hist.tile) THEN FailedUntouched
          ELSE SubtreeDestroyed
    /\ hist.op = "callDestroyed" => FailedUntouched
    /\ hist.op = "getChildren" => ~IsDestroyed(hist.tiles, hist.tile)

\* the materialized descendants of a tile, without the tile
Descendants(t, id) == Subtree(t, id) \ {id}

RECURSIVE WayToDestroyed(_, _)
\* destroy pops the children last to first and destroys each, depth first:
\* the tiles whose destroy is running when the first destroyed tile is met,
\* from the tile down, each with the index of the child it popped last
\* (for a tile that is not destroyed and has a destroyed descendant)
WayToDestroyed(t, id) ==
    LET ch == t[id].children
        K == {i \in 1 .. Len(ch) :
                 \E d \in Subtree(t, ch[i]) : IsDestroyed(t, d)}
        k == CHOOSE i \in K : \A j \in K : j <= i
        here == << [tile |-> id, popped |-> k] >>
    IN  IF IsDestroyed(t, ch[k]) THEN here
        ELSE here \o WayToDestroyed(t, ch[k])

\* the call failed part-way: the subtrees of the children popped before the
\* destroyed tile was met are destroyed, descendants first; the tiles on the
\* way down to the destroyed tile have lost their vertex array and the
\* children popped so far, the child on the way with them, and are not
\* destroyed; every other tile is as it was
DestroyedUntilMet ==
    LET t == hist.tiles
        way == WayToDestroyed(t, hist.tile)
        onWay == {way[j].tile : j \in 1 .. Len(way)}
        done == UNION {UNION {Subtree(t, t[way[j].tile].children[i]) :
                                 i \in way[j].popped + 1 ..
                                        Len(t[way[j].tile].children)} :
                          j \in 1 .. Len(way)}
    IN  /\ hist.threw
        /\ \A j \in 1 .. Len(way) :
              LET p == way[j].tile
              IN  /\ ~IsDestroyed(tiles, p)
                  /\ tiles[p] =
                        [t[p] EXCEPT !.vertexArray = FALSE,
                                     !.children =
                                         SubSeq(@, 1, way[j].popped - 1)]
        /\ \A d \in done :
              /\ ~IsDestroyed(t, d)
              /\ tiles[d] = [t[d] EXCEPT !.vertexArray = FALSE,
                                         !.children = <<>>,
                                         !.destroyed = TRUE]
              /\ DestroyedAt(hist.order, d) > 0
              /\ \A c \in Subtree(t, d) \ {d} :
                    DestroyedAt(hist.order, c) < DestroyedAt(hist.order, d)
        /\ Len(hist.order) = Cardinality(done)
        /\ Len(tiles) = Len(t)
        /\ \A id \in TileIds(tiles) \ (onWay \cup done) :
              tiles[id] = t[id]

\* C21, amended: destroy on a tile that is not destroyed and has no destroyed
\* descendant destroys every materialized descendant before the tile itself
\* and leaves the children array empty; destroy, or any other method but
\* isDestroyed, on a destroyed tile fails with a DeveloperError and destroys
\* nothing, and such a method runs only on a tile that is not destroyed; and
\* destroy on a tile with a destroyed descendant fails with a DeveloperError
\* part-way: what was popped before the destroyed tile was met is destroyed,
\* the tiles on the way to it are not, and the rest is as it was.
C21_DestroyLiveSubtree ==
    /\ hist.op = "destroy" =>
          IF IsDestroyed(hist.tiles, hist.tile) THEN FailedUntouched
          ELSE IF \A d \in Descendants(hist.tiles, hist.tile) :
                     ~IsDestroyed(hist.tiles, d)
                 THEN SubtreeDestroyed
                 ELSE DestroyedUntilMet
    /\ hist.op = "callDestroyed" =>
          /\ IsDestroyed(hist.tiles, hist.tile)
          /\ FailedUntouched
    /\ hist.op = "getChildren" => ~IsDestroyed(hist.tiles, hist.tile)

\* C21 witness: destroy on a tile with children and grandchildren, some of
\* them holding a vertex array, destroyed the nine tiles, the tile last.
C21_Witness ==
    /\ hist.op = "destroy"
    /\ ~hist.threw
    /\ hist.tiles[hist.tile].vertexArray
    /\ \E c \in Descendants(hist.tiles, hist.tile) :
          /\ hist.tiles[c].vertexArray
          /\ hist.tiles[c].children # <<>>
    /\ Len(hist.order) = 9
    /\ hist.order[9] = hist.tile
    /\ \A d \in Subtree(hist.tiles, hist.tile) : IsDestroyed(tiles, d)
    /\ tiles[hist.tile].children = <<>>

(***************************************************************************)
(* Tile construction                                                       *)
(***************************************************************************)
\* C22: new Tile(description) fails with a DeveloperError and creates no tile
\* when the description is missing, when neither an extent nor both x and y
\* are given, when x or y is negative, when level is missing or negative, or
\* when tilingScheme is missing; hence no constructed tile has a negative
\* level, x or y.
C22_ConstructionFailsFast ==
    hist.op = "construct" =>
        LET description == hist.description
            result == hist.result
            invalid ==
                IF ~Defined(description) THEN TRUE
                ELSE LET d == description[1]
                     IN  \/ ~Defined(d.extent)
                            /\ ~(Defined(d.x) /\ Defined(d.y))
                         \/ Negative(d.x)
                         \/ Negative(d.y)
                         \/ ~Defined(d.level)
                         \/ Negative(d.level)
                         \/ ~Defined(d.tilingScheme)
        IN  /\ invalid => (result.threw /\ result.error = "DeveloperError")
            /\ ~result.threw =>
                  /\ ~Negative(result.tile.level)
                  /\ ~Negative(result.tile.x)
                  /\ ~Negative(result.tile.y)

(***************************************************************************)
(* Properties of createTileImagerySkeletons                                *)
(***************************************************************************)
\* the intersection of the tile extent, the provider extent and the layer
\* extent of the last call
Overlap ==
    Extent(Max2(Max2(hist.tileExtent.west, hist.layer.providerExtent.west),
                hist.layer.extent.west),
           Max2(Max2(hist.tileExtent.south, hist.layer.providerExtent.south),
                hist.layer.extent.south),
           Min2(Min2(hist.tileExtent.east, hist.layer.providerExtent.east),
                hist.layer.extent.east),
           Min2(Min2(hist.tileExtent.north, hist.layer.providerExtent.north),
                hist.layer.extent.north))

\* the bindings the tile had before the last call, and has after it
BindingsBefore == BindingsOf(hist.tiles, hist.imagery, hist.tile)
BindingsAfter == BindingsOf(tiles, imagery, hist.tile)

\* C23: createTileImagerySkeletons returns false and leaves the tile's
\* binding list unchanged exactly when the intersection of the tile extent,
\* the provider extent and the layer extent is empty (east <= west or
\* north <= south); otherwise it returns true.
C23_FalseExactlyWhenNoOverlap ==
    hist.op = "createTileImagerySkeletons" =>
        /\ hist.result.returned
              <=> (Overlap.west < Overlap.east /\ Overlap.south < Overlap.north)
        /\ ~hist.result.returned =>
              /\ tiles = hist.tiles
              /\ imagery = hist.imagery
              /\ BindingsAfter = BindingsBefore

\* C23 witness: a call on a tile that has a binding returned false because
\* the tile only touches the layer's extent, and the tile has that binding
\* and no other.
C23_Witness ==
    /\ hist.op = "createTileImagerySkeletons"
    /\ ~hist.result.returned
    /\ Overlap.west = Overlap.east
    /\ Overlap.south < Overlap.north
    /\ Len(BindingsBefore) = 1
    /\ BindingsAfter = BindingsBefore

\* C24: for every non-empty intersected extent, the latitude used for level
\* selection is south when south > 0, north when north < 0 and 0 otherwise;
\* it is the latitude of the extent that is closest to the equator.
C24_LatitudeClosestToEquator ==
    (hist.op = "createTileImagerySkeletons" /\ hist.result.returned) =>
        LET latitude == hist.result.latitude
        IN  /\ Overlap.south > 0 => latitude = Overlap.south
            /\ Overlap.north < 0 => latitude = Overlap.north
            /\ (Overlap.south <= 0 /\ Overlap.north >= 0) => latitude = 0
            /\ latitude \in Overlap.south .. Overlap.north
            /\ \A l \in Overlap.south .. Overlap.north :
                  Abs(latitude) <= Abs(l)
            /\ hist.result.level =
                  ClampLevel(hist.layer.maxLevel,
                      GetLevelWithMaximumTexelSpacing(hist.geometricError,
                                                      latitude))

\* C24 witness: the overlap lies in the southern hemisphere and its north
\* edge, not its south edge, was used; the level is lower than the one the
\* equator would give.
C24_Witness ==
    /\ hist.op = "createTileImagerySkeletons"
    /\ hist.result.returned
    /\ Overlap.north < 0
    /\ hist.result.latitude = Overlap.north
    /\ hist.result.latitude # Overlap.south
    /\ hist.result.level <
           ClampLevel(hist.layer.maxLevel,
               GetLevelWithMaximumTexelSpacing(hist.geometricError, 0))

\* C25: a call that returns true appends to the tile exactly one binding for
\* each (i, j) of the adjusted rectangle [nw.x .. se.x] x [nw.y .. se.y] and
\* no other binding, all of them at one level L with
\* 0 <= L <= imageryProvider.maxLevel, and keeps the bindings the tile had.
C25_OneBindingPerImageryTile ==
    (hist.op = "createTileImagerySkeletons" /\ hist.result.returned) =>
        LET before == BindingsBefore
            after == BindingsAfter
            nw == hist.result.northwest
            se == hist.result.southeast
            L == hist.result.level
            added == Len(before) + 1 .. Len(after)
        IN  /\ Len(after) >= Len(before)
            /\ SubSeq(after, 1, Len(before)) = before
            /\ 0 <= L /\ L <= hist.layer.maxLevel
            /\ \A k \in added :
                  /\ after[k].level = L
                  /\ after[k].x \in nw.x .. se.x
                  /\ after[k].y \in nw.y .. se.y
                  /\ after[k].state = "UNLOADED"
            /\ \A i \in nw.x .. se.x, j \in nw.y .. se.y :
                  Cardinality({k \in added :
                                  after[k].x = i /\ after[k].y = j}) = 1
            /\ \A id \in TileIds(tiles) \ {hist.tile} :
                  tiles[id] = hist.tiles[id]
            /\ \A b \in DOMAIN hist.imagery : imagery[b] = hist.imagery[b]

\* C25 witness: a call on a tile that has a binding appended the bindings of
\* a rectangle of two or more columns and rows, at a level above 0, whose
\* southeast corner was moved off a tile that only touches the overlap.
C25_Witness ==
    /\ hist.op = "createTileImagerySkeletons"
    /\ hist.result.returned
    /\ Len(BindingsBefore) = 1
    /\ hist.result.level > 0
    /\ hist.result.southeast.x > hist.result.northwest.x
    /\ hist.result.southeast.y > hist.result.northwest.y
    /\ hist.result.southeast #
           PositionToTileXY(Overlap.east, Overlap.south, hist.result.level)
    /\ Len(BindingsAfter) = 1 +
           (hist.result.southeast.x - hist.result.northwest.x + 1)
           * (hist.result.southeast.y - hist.result.northwest.y + 1)

(***************************************************************************)
(* Frame effect of requestImagery                                          *)
(***************************************************************************)
\* C26: a requestImagery call that issues no fetch, because of a cache hit
\* (ready or in flight) or because the host is over the cap, leaves every
\* host's counter and every cache entry unchanged and creates no pending
\* entry; it changes only the state and the texture of the requesting binding.
\* The first callback is compared with the state it started in, whether it
\* ran inside the call or later, when the URL promise resolved; a call that
\* returns with its URL promise unsettled changes nothing at all.
C26_NoFetchTouchesOnlyBinding ==
    /\ (last.op = "requestImagery" /\ last.outcome = "resolved"
            /\ ~last.issued)
        =>  LET b == last.binding
                pre == last.pre
            IN  /\ activeTileImageRequests = pre.active
                /\ imageryCache = pre.cache
                /\ inFlight = pre.inFlight
                /\ \A c \in DOMAIN imagery \ {b} : imagery[c] = pre.imagery[c]
                /\ imagery[b] = [pre.imagery[b] EXCEPT
                                     !.state = imagery[b].state,
                                     !.texture = imagery[b].texture]
    /\ (last.op = "requestImagery" /\ last.outcome = "pending")
        =>  /\ ~last.issued
            /\ activeTileImageRequests = last.pre.active
            /\ imageryCache = last.pre.cache
            /\ inFlight = last.pre.inFlight
            /\ imagery = last.pre.imagery

\* C26 witness: a request was postponed because its host was over the cap,
\* while the cache held a pending entry and a finished one, after another
\* binding was made READY by a hit on a finished entry, and while another
\* call waits for its URL.
C26_Witness ==
    /\ last.op = "requestImagery"
    /\ last.outcome = "resolved"
    /\ ~last.issued
    /\ BagCardinality(urlPending) > 0
    /\ LET url == BuildImageUrl(imagery[last.binding].x,
                                imagery[last.binding].y,
                                imagery[last.binding].level)
       IN  /\ ~CacheHas(last.pre.cache, url)
           /\ OverCap(last.pre.active, GetHostname(url))
    /\ imagery[last.binding].state = "UNLOADED"
    /\ \E u \in DOMAIN imageryCache : imageryCache[u].texture = NoTexture
    /\ \E u \in DOMAIN imageryCache : imageryCache[u].texture # NoTexture
    /\ \E c \in DOMAIN imagery :
          imagery[c].state = "READY" /\ imagery[c].texture # c
    /\ C26_NoFetchTouchesOnlyBinding

====
